---- MODULE Spec2Model ----
(***************************************************************************)
(* SyncOrbit (velinea/syncorbit): the reconciliation layer of server.cjs.  *)
(*                                                                         *)
(* The model covers the single-item re-analysis handler                    *)
(* (POST /api/reanalyze/:movie), the SQLite upsert it performs, the bulk   *)
(* handlers (ignore, touch_whisper, ffsubsync), the batch-scan trigger and *)
(* the progress poll, the bulk modal of the page (app.js), and the files   *)
(* those handlers read and write: the media directory, the whisper         *)
(* reference, the ffsubsync output, the ignore list, the analysis file and *)
(* the progress file.                                                      *)
(*                                                                         *)
(* Node runs each handler to its next await without interleaving, so one   *)
(* action models one synchronous stretch of a handler.  The re-analysis    *)
(* handler has exactly one await that yields to other requests (the fetch  *)
(* of /api/align), hence two actions: ReanalyzeStart and ReanalyzeResume.  *)
(* The bulk ffsubsync handler calls spawnSync: the event loop stays inside *)
(* the handler while the tool runs, so no other handler of the server is   *)
(* enabled between BulkFfsubsync and the last FfsubsyncExit of a request.  *)
(*                                                                         *)
(* Optional JavaScript values (undefined / null) are modelled as           *)
(* sequences of length 0 or 1: None == <<>>, Some(v) == <<v>>.  File paths *)
(* are sequences of path segments; the empty path stands for null.         *)
(* Offsets are integers (an abstract unit), not floats.                    *)
(***************************************************************************)
EXTENDS Integers, Sequences, FiniteSets, TLC

\* ------------------------------------------------------------------ bounds
MaxStamp == 2      \* modification times are 10, 20, ... 10 * MaxStamp
MaxReqs == 2       \* concurrent re-analysis requests
MaxClients == 3    \* browser tabs that can trigger a batch scan
MaxBulk == 2       \* items in one bulk request
MaxInflight == 2   \* unanswered fire-and-forget requests of the page

Movies == {"A"}
Names == Movies \cup {"B"}   \* what a request can name; "B" is not in the library
Reqs == 1..MaxReqs
Absent == 0
Stamps == {10 * k : k \in 1..MaxStamp}
FirstStamp == CHOOSE t \in Stamps : \A u \in Stamps : t <= u
Clients == 1..MaxClients
Nows == {1000}     \* Date.now() / 1000 when a row is written

None == <<>>
Some(v) == <<v>>

VARIABLES
  disk,        \* per movie: media dir, EN / FI subtitle, whisper ref, ffsubsync output
  ignoreList,  \* content of ignore_list.json
  db,          \* the rows of table movies
  syncinfo,    \* per movie: content of analysis/<movie>/analysis.syncinfo
  req,         \* the in-flight and answered re-analysis requests
  scans,       \* number of live batch_scan.py processes
  ui,          \* per browser tab: the Scan Library button and the library note
  env,         \* process.env.SYNCORBIT_DATA (None when unset)
  video,       \* per movie: the media directory holds a video file
  job,         \* the bulk ffsubsync handler: idle, or inside spawnSync
  bulkResp,    \* the last response of a bulk handler
  modal,       \* the bulk-action modal of the page
  progress,    \* content of batch_progress.json (None when the file is absent)
  poll,        \* the last answer of GET /api/batch_progress
  schema,      \* syncorbit.db: the columns of table movies, the outcome of opening it
  listing,     \* the last answer of GET /api/library
  libraryTableBody,  \* the rows of the library table as the page rendered them
  samples,     \* the anchors handed to the graph: their t and delta
  curve,       \* the last result of cubicSpline
  hover        \* the last mousemove over the graph and the sample it selected

\* The state of the bulk handlers, the bulk modal and the progress poll.
jobVars == <<env, video, job, bulkResp, modal, progress, poll>>

\* The state of the store's schema, the library view and the graph.
viewVars == <<schema, listing, libraryTableBody, samples, curve, hover>>

vars == <<disk, ignoreList, db, syncinfo, req, scans, ui, jobVars, viewVars>>

\* ------------------------------------------------------------------ paths
MEDIA_ROOT == <<"app", "media">>
DATA_ROOT == <<"app", "data">>
EnName == "movie.en.srt"
FiName == "movie.fi.srt"
SyncedName == "movie.en.synced.srt"

MovieDir(movie) == MEDIA_ROOT \o <<movie>>
WhisperRefPath(movie) == DATA_ROOT \o <<"ref", movie, "ref.srt">>
ResyncDir(movie) == DATA_ROOT \o <<"resync", movie>>

\* ------------------------------------------------------------------ helpers
\* JavaScript's a ?? b on optional values
Coalesce(a, b) == IF a # None THEN a ELSE b

findFiSubtitleMtime(dsk) ==
  IF dsk.dir /\ dsk.fi # Absent THEN Some(dsk.fi) ELSE None

hasFfsubsync(dsk) == IF dsk.ffsync # Absent THEN 1 ELSE 0

hasWhisper(dsk) == IF dsk.whisper # Absent THEN 1 ELSE 0

\* Lines 17-20: the file the bulk ignore handler reads and writes.
IGNORE_FILE == Coalesce(env, Some(<<"app", "data">>))[1] \o <<"ignore_list.json">>

\* The parsed content of an ignore list file; ignoreList is the content of
\* IGNORE_FILE, no other file of that name exists.
ReadIgnoreFile(file) == IF file = IGNORE_FILE THEN ignoreList ELSE <<>>

\* loadIgnoreList: the parsed list (a missing or unparsable file reads as [])
loadIgnoreList == ReadIgnoreFile(IGNORE_FILE)

Includes(list, x) == \E i \in 1..Len(list) : list[i] = x

\* ------------------------------------------------------------------ data
\* What align.py prints: summary fields, each possibly missing.
DataFull ==
  [anchor_count |-> Some(12), raw_anchor_count |-> Some(15),
   median_offset_sec |-> Some(1), avg_offset_sec |-> Some(2),
   robust_drift_span_sec |-> Some(3), drift_span_sec |-> Some(4),
   raw_drift_span_sec |-> Some(5), decision |-> Some("synced")]

DataSparse ==
  [anchor_count |-> None, raw_anchor_count |-> Some(7),
   median_offset_sec |-> None, avg_offset_sec |-> Some(40),
   robust_drift_span_sec |-> None, drift_span_sec |-> None,
   raw_drift_span_sec |-> Some(90), decision |-> None]

AlignData == {DataFull, DataSparse}

\* What the fetch of /api/align resolves to: ok is alignRes.ok, error is
\* data.error.  align.py exit 0 gives 200 with its JSON (which may itself
\* carry an error field); a non-zero exit or unparsable output gives 500 with
\* an error field.
AlignResponses ==
  {[ok |-> TRUE, error |-> None, data |-> d] : d \in AlignData}
    \cup {[ok |-> FALSE, error |-> Some("align.py failed"), data |-> DataSparse],
          [ok |-> TRUE, error |-> Some("no_anchors"), data |-> DataSparse]}

\* Where an exception can be raised after the analyzer was called: the fetch
\* itself (or alignRes.json()), the write of the analysis file, the guarded
\* read of the ignored flag, the upsert, the read-back of the stored row.
Faults == {"none", "fetch", "syncinfo", "get_ignored", "upsert", "readback"}

\* The ways one call of the analyzer can end: the fetch rejects, or it
\* resolves to an error response, or it resolves to a result and the rest of
\* the handler meets at most one fault.
AlignFailed(alignRes) == ~alignRes.ok \/ alignRes.error # None

ResumeCases ==
  {c \in [alignRes : AlignResponses, fault : Faults] :
     /\ c.fault = "fetch" => c.alignRes.error = Some("align.py failed")
     /\ AlignFailed(c.alignRes) => c.fault \in {"none", "fetch"}}

\* ------------------------------------------------------------------ store
getMovie(table, movie) == {x \in table : x.movie = movie}

\* A statement that forgets two columns in its DO UPDATE SET list.
UpsertMovie_KeepsReference(table, row) ==
  IF getMovie(table, row.movie) # {}
    THEN {IF old.movie = row.movie
            THEN [old EXCEPT !.anchor_count = row.anchor_count,
                             !.avg_offset = row.avg_offset,
                             !.drift_span = row.drift_span,
                             !.decision = row.decision,
                             !.has_whisper = row.has_whisper,
                             !.has_ffsubsync = row.has_ffsubsync,
                             !.fi_mtime = row.fi_mtime,
                             !.last_analyzed = row.last_analyzed,
                             !.ignored = row.ignored]
            ELSE old : old \in table}
    ELSE table \cup {row @@ [state |-> "ok"]}

\* A statement without the ON CONFLICT clause, on a table without the
\* primary key.
UpsertMovie_InsertOnly(table, row) ==
  table \cup {row @@ [state |-> "ok"]}

\* upsertMovieStmt: INSERT ... ON CONFLICT(movie) DO UPDATE SET <12 columns>.
\* Column state is not in the statement: a new row gets its default 'ok', an
\* existing row keeps the state it has.
UpsertMovie(table, row) ==
  IF getMovie(table, row.movie) # {}
    THEN {IF old.movie = row.movie
            THEN [old EXCEPT !.anchor_count = row.anchor_count,
                             !.avg_offset = row.avg_offset,
                             !.drift_span = row.drift_span,
                             !.decision = row.decision,
                             !.best_reference = row.best_reference,
                             !.reference_path = row.reference_path,
                             !.has_whisper = row.has_whisper,
                             !.has_ffsubsync = row.has_ffsubsync,
                             !.fi_mtime = row.fi_mtime,
                             !.last_analyzed = row.last_analyzed,
                             !.ignored = row.ignored]
            ELSE old : old \in table}
    ELSE table \cup {row @@ [state |-> "ok"]}

\* ------------------------------------------------------------------ reference selection
NoRef == [ref |-> None, refType |-> ""]

\* A selection that settles for the EN subtitle while another request is
\* waiting for the analyzer.
SelectReference_EnWhenBusy(dsk, movie) ==
  IF dsk.en # Absent /\ \E q \in Reqs : req[q].pc = "await"
    THEN [ref |-> MovieDir(movie) \o <<EnName>>, refType |-> "en"]
  ELSE IF dsk.whisper # Absent
    THEN [ref |-> WhisperRefPath(movie), refType |-> "whisper"]
  ELSE IF dsk.ffsync # Absent
    THEN [ref |-> ResyncDir(movie) \o <<SyncedName>>, refType |-> "ffsync"]
  ELSE IF dsk.en # Absent
    THEN [ref |-> MovieDir(movie) \o <<EnName>>, refType |-> "en"]
  ELSE NoRef

\* The selection with the EN subtitle tried before the ffsubsync output.
SelectReference_EnBeforeFfsync(dsk, movie) ==
  IF dsk.whisper # Absent
    THEN [ref |-> WhisperRefPath(movie), refType |-> "whisper"]
  ELSE IF dsk.en # Absent
    THEN [ref |-> MovieDir(movie) \o <<EnName>>, refType |-> "en"]
  ELSE IF dsk.ffsync # Absent
    THEN [ref |-> ResyncDir(movie) \o <<SyncedName>>, refType |-> "ffsync"]
  ELSE NoRef

\* The selection without the existsSync test of the whisper reference.
SelectReference_WhisperUnchecked(dsk, movie) ==
  [ref |-> WhisperRefPath(movie), refType |-> "whisper"]

\* The selection without the test that an EN subtitle was found.
SelectReference_EnUnchecked(dsk, movie) ==
  IF dsk.whisper # Absent
    THEN [ref |-> WhisperRefPath(movie), refType |-> "whisper"]
  ELSE IF dsk.ffsync # Absent
    THEN [ref |-> ResyncDir(movie) \o <<SyncedName>>, refType |-> "ffsync"]
  ELSE [ref |-> MovieDir(movie) \o <<EnName>>, refType |-> "en"]

\* Lines 467-505: whisper if ref.srt exists; else the first *.synced.srt of
\* the resync directory; else the EN subtitle of the movie directory.
SelectReference(dsk, movie) ==
  LET s1 == IF dsk.whisper # Absent
              THEN [ref |-> WhisperRefPath(movie), refType |-> "whisper"]
              ELSE NoRef
      s2 == IF s1.ref = None /\ dsk.ffsync # Absent
              THEN [ref |-> ResyncDir(movie) \o <<SyncedName>>, refType |-> "ffsync"]
              ELSE s1
      s3 == IF s2.ref = None
              THEN IF dsk.en # Absent
                     THEN [ref |-> MovieDir(movie) \o <<EnName>>, refType |-> "en"]
                     ELSE NoRef
              ELSE s2
  IN  s3

\* Lines 559-581: the row bound to upsertMovieStmt.
MakeRow(movie, data, sel, dsk, ignoredFlag, now) ==
  [movie |-> movie,
   anchor_count |-> Coalesce(Coalesce(data.anchor_count, data.raw_anchor_count), Some(0))[1],
   avg_offset |-> Coalesce(Coalesce(data.median_offset_sec, data.avg_offset_sec), Some(0))[1],
   drift_span |->
     Coalesce(Coalesce(Coalesce(data.robust_drift_span_sec, data.drift_span_sec),
                       data.raw_drift_span_sec), Some(0))[1],
   decision |-> Coalesce(data.decision, Some("unknown"))[1],
   best_reference |-> sel.refType,
   reference_path |-> sel.ref,
   has_whisper |-> hasWhisper(dsk),
   has_ffsubsync |-> hasFfsubsync(dsk),
   fi_mtime |-> findFiSubtitleMtime(dsk),
   last_analyzed |-> Some(now),
   ignored |-> ignoredFlag]

\* Lines 552-557: row && row.ignored, 0 when the read throws.
ReadIgnoredFlag(table, movie, readThrows) ==
  IF ~readThrows /\ \E x \in getMovie(table, movie) : x.ignored = 1 THEN 1 ELSE 0

\* ------------------------------------------------------------------ requests
Idle == [pc |-> "idle", movie |-> "", ref |-> None, refType |-> "", tgt |-> None,
         resp |-> None]

Answer(movie, ok, error) ==
  [pc |-> "done", movie |-> movie, ref |-> None, refType |-> "", tgt |-> None,
   resp |-> Some([ok |-> ok, error |-> error])]

\* ------------------------------------------------------------------ initial state
\* A row left in syncorbit.db by an earlier run (the database outlives the
\* process; batch_scan.py and manual SQL also write it).
PriorRow(movie, ign, st) ==
  [movie |-> movie, anchor_count |-> 3, avg_offset |-> 6, drift_span |-> 9,
   decision |-> "bad", best_reference |-> "en",
   reference_path |-> MovieDir(movie) \o <<EnName>>,
   has_whisper |-> 0, has_ffsubsync |-> 0, fi_mtime |-> Some(10),
   last_analyzed |-> Some(500), ignored |-> ign, state |-> st]

PriorRows == {PriorRow(m, ign, st) : m \in Movies, ign \in {0, 1},
                                     st \in {"ok", "missing_subtitles"}}

DiskLayouts(stamps) ==
  {d \in [dir : BOOLEAN, en : {Absent} \cup stamps, fi : {Absent} \cup stamps,
          whisper : {Absent} \cup stamps, ffsync : {Absent} \cup stamps] :
     ~d.dir => (d.en = Absent /\ d.fi = Absent)}

\* The bulk ffsubsync handler is not running.
JobIdle ==
  [pc |-> "idle", request |-> <<>>, movies |-> <<>>, results |-> <<>>, errors |-> <<>>]

\* The page as loaded: no row checked, the bulk modal closed, no action
\* chosen, no request sent.
ModalClosed ==
  [checked |-> {},            \* the rows whose .row-check is checked
   bulkDisabled |-> TRUE,     \* bulkActionsBtn.disabled
   runDisabled |-> FALSE,     \* bulkRunBtn.disabled
   spinner |-> FALSE,         \* globalSpinner is shown
   open |-> FALSE,            \* bulkModal is shown
   resultBox |-> FALSE,       \* bulkResultBox is shown
   selection |-> {},          \* currentBulkSelection
   action |-> "",             \* the checked bulkAction radio
   waiting |-> "",            \* the action whose response the handler awaits
   inflight |-> 0,            \* requests sent without waiting for the response
   note |-> ""]               \* the last alert

\* The columns of table movies as initDb creates it.
Columns ==
  {"movie", "anchor_count", "avg_offset", "drift_span", "decision",
   "best_reference", "reference_path", "has_whisper", "has_ffsubsync",
   "fi_mtime", "last_analyzed", "ignored", "state"}

\* The store is open and its table has every column; the page has loaded no
\* library rows.
InitView ==
  /\ schema = [columns |-> Some(Columns), opened |-> "ok"]
  /\ listing = None
  /\ libraryTableBody = <<>>

\* No graph is drawn: no anchors, no curve, no tooltip.
InitGraph ==
  /\ samples = [xs |-> <<>>, ys |-> <<>>]
  /\ curve = None
  /\ hover = None

\* The server has started: no request in flight, no scan running.
InitProcess ==
  /\ InitView
  /\ ignoreList = <<>>
  /\ syncinfo = [m \in Movies |-> None]
  /\ req = [r \in Reqs |-> Idle]
  /\ scans = 0
  /\ ui = [c \in Clients |-> [disabled |-> FALSE, libNote |-> ""]]
  /\ job = JobIdle
  /\ bulkResp = None
  /\ modal = ModalClosed
  /\ progress = None
  /\ poll = None

InitServer == InitProcess /\ InitGraph

\* The container as the Dockerfile builds it: SYNCORBIT_DATA is not set; each
\* media directory holds its video file.
InitDeployment ==
  /\ env = None
  /\ video = [m \in Movies |-> TRUE]

Init ==
  /\ InitServer
  /\ InitDeployment
  /\ disk \in [Movies -> DiskLayouts({FirstStamp})]
  /\ db \in {t \in SUBSET PriorRows : \A m \in Movies : Cardinality(getMovie(t, m)) <= 1}

\* ------------------------------------------------------------------ the file system changes
\* A subtitle of the media directory, the whisper reference or the ffsubsync
\* output appears, is replaced (new mtime) or is deleted.
SetFile(movie, file, t) ==
  /\ disk[movie][file] # t
  /\ file \in {"en", "fi"} => disk[movie].dir
  /\ disk' = [disk EXCEPT ![movie][file] = t]
  /\ UNCHANGED <<ignoreList, db, syncinfo, req, scans, ui, jobVars, viewVars>>

\* The media directory of a movie appears (empty) or disappears with its files.
SetDir(movie) ==
  /\ disk' = [disk EXCEPT ![movie] =
       IF disk[movie].dir
         THEN [@ EXCEPT !.dir = FALSE, !.en = Absent, !.fi = Absent]
         ELSE [@ EXCEPT !.dir = TRUE]]
  /\ UNCHANGED <<ignoreList, db, syncinfo, req, scans, ui, jobVars, viewVars>>

\* ------------------------------------------------------------------ POST /api/reanalyze/:movie
\* A handler that looks for the FI subtitle before it selects the reference.
ReanalyzeStart_TargetFirst(r, movie) ==
  /\ job.pc = "idle"
  /\ req[r].pc # "await"
  /\ \A q \in 1..(r - 1) : req[q].pc = "await"
  /\ LET dsk == disk[movie]
         sel == SelectReference(dsk, movie)
     IN  req' = [req EXCEPT ![r] =
           IF ~dsk.dir THEN Answer(movie, FALSE, "movie_not_found")
           ELSE IF Includes(ReadIgnoreFile(DATA_ROOT \o <<"ignore_list.json">>), movie)
             THEN Answer(movie, FALSE, "ignored")
           ELSE IF dsk.fi = Absent THEN Answer(movie, FALSE, "missing_finnish_subtitle")
           ELSE IF sel.ref = None THEN Answer(movie, FALSE, "no_english_reference")
           ELSE [pc |-> "await", movie |-> movie, ref |-> sel.ref,
                 refType |-> sel.refType, tgt |-> MovieDir(movie) \o <<FiName>>,
                 resp |-> None]]
  /\ UNCHANGED <<disk, ignoreList, db, syncinfo, scans, ui, jobVars, viewVars>>

\* Lines 448-523: the eligibility checks, the reference selection and the
\* target lookup, up to the fetch of /api/align.  A new request takes the
\* first slot that is not waiting for the analyzer (the slots only name the
\* requests; the answer a slot held is overwritten).
ReanalyzeStart(r, movie) ==
  /\ job.pc = "idle"
  /\ req[r].pc # "await"
  /\ \A q \in 1..(r - 1) : req[q].pc = "await"
  /\ LET dsk == disk[movie]
         sel == SelectReference(dsk, movie)
     IN  req' = [req EXCEPT ![r] =
           IF ~dsk.dir THEN Answer(movie, FALSE, "movie_not_found")
           ELSE IF Includes(ReadIgnoreFile(DATA_ROOT \o <<"ignore_list.json">>), movie)
             THEN Answer(movie, FALSE, "ignored")
           ELSE IF sel.ref = None THEN Answer(movie, FALSE, "no_english_reference")
           ELSE IF dsk.fi = Absent THEN Answer(movie, FALSE, "missing_finnish_subtitle")
           ELSE [pc |-> "await", movie |-> movie, ref |-> sel.ref,
                 refType |-> sel.refType, tgt |-> MovieDir(movie) \o <<FiName>>,
                 resp |-> None]]
  /\ UNCHANGED <<disk, ignoreList, db, syncinfo, scans, ui, jobVars, viewVars>>

\* Lines 523-603: the fetch resolves (or rejects) and the handler runs to its
\* response without further interleaving.
ReanalyzeResume(r) ==
  /\ job.pc = "idle"
  /\ req[r].pc = "await"
  /\ \E c \in ResumeCases, now \in Nows :
       LET alignRes == c.alignRes
           fault == c.fault
           movie == req[r].movie
           sel == [ref |-> req[r].ref, refType |-> req[r].refType]
           data == alignRes.data
           file == [data |-> data, best_reference |-> sel.refType,
                    reference_path |-> sel.ref]
           ignoredFlag == ReadIgnoredFlag(db, movie, fault = "get_ignored")
           row == MakeRow(movie, data, sel, disk[movie], ignoredFlag, now)
       IN  IF fault = "fetch"
             THEN /\ req' = [req EXCEPT ![r] = Answer(movie, FALSE, "exception")]
                  /\ UNCHANGED <<db, syncinfo>>
           ELSE IF AlignFailed(alignRes)
             THEN /\ req' = [req EXCEPT ![r] =
                       Answer(movie, FALSE, Coalesce(alignRes.error, Some("align_failed"))[1])]
                  /\ UNCHANGED <<db, syncinfo>>
           ELSE IF fault = "syncinfo"
             THEN /\ req' = [req EXCEPT ![r] = Answer(movie, FALSE, "exception")]
                  /\ UNCHANGED <<db, syncinfo>>
           ELSE IF fault = "upsert"
             THEN /\ syncinfo' = [syncinfo EXCEPT ![movie] = Some(file)]
                  /\ req' = [req EXCEPT ![r] = Answer(movie, FALSE, "exception")]
                  /\ UNCHANGED db
           ELSE /\ syncinfo' = [syncinfo EXCEPT ![movie] = Some(file)]
                /\ db' = UpsertMovie(db, row)
                /\ req' = [req EXCEPT ![r] =
                     IF fault = "readback"
                       THEN Answer(movie, FALSE, "exception")
                       ELSE Answer(movie, TRUE, "")]
  /\ UNCHANGED <<disk, ignoreList, scans, ui, jobVars, viewVars>>

\* ------------------------------------------------------------------ POST /api/bulk/ignore
\* A loop that pushes every requested name, listed already or not.
PushAll_Unchecked(list, movies) == list \o movies

RECURSIVE PushAll(_, _)
PushAll(list, movies) ==
  IF movies = <<>> THEN list
  ELSE PushAll(IF Includes(list, Head(movies)) THEN list ELSE Append(list, Head(movies)),
               Tail(movies))

\* A handler that also deletes the rows of the items it ignores.
BulkIgnore_DropsRows(movies) ==
  /\ job.pc = "idle"
  /\ ignoreList' = PushAll(loadIgnoreList, movies)
  /\ bulkResp' = Some([ok |-> TRUE, total |-> Some(Len(ignoreList')),
                       results |-> None, errors |-> None])
  /\ db' = {x \in db : ~Includes(ignoreList', x.movie)}
  /\ UNCHANGED <<disk, syncinfo, req, scans, ui, viewVars>>
  /\ UNCHANGED <<env, video, job, modal, progress, poll>>

\* Lines 144-157: every requested name is pushed, the list is saved and its
\* length returned.
BulkIgnore(movies) ==
  /\ job.pc = "idle"
  /\ ignoreList' = PushAll(loadIgnoreList, movies)
  /\ bulkResp' = Some([ok |-> TRUE, total |-> Some(Len(ignoreList')),
                       results |-> None, errors |-> None])
  /\ UNCHANGED <<disk, db, syncinfo, req, scans, ui, viewVars>>
  /\ UNCHANGED <<env, video, job, modal, progress, poll>>

\* ------------------------------------------------------------------ POST /api/bulk/touch_whisper
\* What a bulk handler answers with: results and errors, in request order.
BulkAnswer(results, errors) ==
  Some([ok |-> TRUE, total |-> None, results |-> Some(results), errors |-> Some(errors)])

\* Lines 164-179, the loop from item i on: a missing ref.srt is an error and
\* the loop continues; utimesSync sets the mtime to now, or throws (for the
\* positions in failing) into the catch of that item.
\* A handler that touches the way touch(1) does: a missing reference of a
\* movie of the library is created empty.
RECURSIVE TouchAll_CreatesMissing(_, _, _, _, _)
TouchAll_CreatesMissing(movies, i, failing, now, acc) ==
  IF i > Len(movies) THEN acc
  ELSE LET movie == movies[i]
       IN  IF movie \notin Movies
             THEN TouchAll_CreatesMissing(movies, i + 1, failing, now,
                    [acc EXCEPT !.errors =
                       Append(@, [movie |-> movie, error |-> "Whisper reference missing"])])
           ELSE TouchAll_CreatesMissing(movies, i + 1, failing, now,
                  [acc EXCEPT !.disk[movie].whisper = now,
                              !.results = Append(@, [movie |-> movie])])

RECURSIVE TouchAll(_, _, _, _, _)
TouchAll(movies, i, failing, now, acc) ==
  IF i > Len(movies) THEN acc
  ELSE LET movie == movies[i]
       IN  IF ~(movie \in Movies /\ acc.disk[movie].whisper # Absent)
             THEN TouchAll(movies, i + 1, failing, now,
                    [acc EXCEPT !.errors =
                       Append(@, [movie |-> movie, error |-> "Whisper reference missing"])])
           ELSE IF i \in failing
             THEN TouchAll(movies, i + 1, failing, now,
                    [acc EXCEPT !.errors =
                       Append(@, [movie |-> movie, error |-> "utimes failed"])])
           ELSE TouchAll(movies, i + 1, failing, now,
                  [acc EXCEPT !.disk[movie].whisper = now,
                              !.results = Append(@, [movie |-> movie])])

\* Lines 159-182: the whole handler; it has no await.
BulkTouchWhisper(movies, failing, now) ==
  /\ job.pc = "idle"
  /\ LET out == TouchAll(movies, 1, failing, now,
                   [disk |-> disk, results |-> <<>>, errors |-> <<>>])
     IN  /\ disk' = out.disk
         /\ bulkResp' = BulkAnswer(out.results, out.errors)
  /\ UNCHANGED <<ignoreList, db, syncinfo, req, scans, ui, viewVars>>
  /\ UNCHANGED <<env, video, job, modal, progress, poll>>

\* ------------------------------------------------------------------ POST /api/bulk/ffsubsync
\* Lines 198-224 for the items at the head of j.movies: an item without media
\* directory (readdirSync throws), without video or without EN subtitle is
\* an error and the loop continues; the first item that has both stops the
\* loop inside spawnSync.  Past the last item the handler answers.
RECURSIVE FfsubsyncLoop(_, _)
FfsubsyncLoop(j, dsk) ==
  IF j.movies = <<>> THEN [j EXCEPT !.pc = "respond"]
  ELSE LET movie == Head(j.movies)
           fail(error) ==
             FfsubsyncLoop([j EXCEPT !.movies = Tail(@),
                                     !.errors = Append(@, [movie |-> movie, error |-> error])],
                           dsk)
       IN  IF ~(movie \in Movies /\ dsk[movie].dir) THEN fail("ENOENT")
           ELSE IF ~video[movie] THEN fail("No video file found")
           ELSE IF dsk[movie].en = Absent THEN fail("No EN subtitle found")
           ELSE [j EXCEPT !.pc = "spawnSync"]

\* A handler that answers as soon as one item has failed.
FfsubsyncContinue_AbortsOnError(j, dsk) ==
  LET k == FfsubsyncLoop(j, dsk)
  IN  IF k.pc = "respond" \/ k.errors # <<>>
        THEN /\ job' = JobIdle
             /\ bulkResp' = BulkAnswer(k.results, k.errors)
        ELSE /\ job' = k
             /\ UNCHANGED bulkResp

\* The handler reaches spawnSync, where the event loop stays until ffsubsync
\* has exited, or line 299, where it answers.
FfsubsyncContinue(j, dsk) ==
  LET k == FfsubsyncLoop(j, dsk)
  IN  IF k.pc = "respond"
        THEN /\ job' = JobIdle
             /\ bulkResp' = BulkAnswer(k.results, k.errors)
        ELSE /\ job' = k
             /\ UNCHANGED bulkResp

\* Lines 184-248: the request arrives.
BulkFfsubsync(movies) ==
  /\ job.pc = "idle"
  /\ FfsubsyncContinue([pc |-> "idle", request |-> movies, movies |-> movies,
                        results |-> <<>>, errors |-> <<>>], disk)
  /\ UNCHANGED <<disk, ignoreList, db, syncinfo, req, scans, ui, viewVars>>
  /\ UNCHANGED <<env, video, modal, progress, poll>>

\* Lines 250-298: spawnSync returns.  A spawn error and a non-zero exit are
\* errors of the item.  After exit 0 the item is pushed to results; then the
\* argument of updateSyncInfoWithFfsync names normalizedScore, which is not
\* declared (the score is in normScore): the ReferenceError is caught at line
\* 295 and pushed to errors, and the analysis file is not updated.  Exit 0
\* has left the output file in the resync directory.
FfsubsyncExit(outcome, now) ==
  /\ job.pc = "spawnSync"
  /\ LET movie == Head(job.movies)
         rest == [job EXCEPT !.movies = Tail(@)]
         dsk == IF outcome = "ok" THEN [disk EXCEPT ![movie].ffsync = now] ELSE disk
     IN  /\ disk' = dsk
         /\ FfsubsyncContinue(
              IF outcome = "spawn_error"
                THEN [rest EXCEPT !.errors = Append(@, [movie |-> movie, error |-> "spawn failed"])]
              ELSE IF outcome = "nonzero"
                THEN [rest EXCEPT !.errors =
                        Append(@, [movie |-> movie, error |-> "ffsubsync failed"])]
              ELSE [rest EXCEPT !.results = Append(@, [movie |-> movie]),
                                !.errors = Append(@, [movie |-> movie,
                                                      error |-> "normalizedScore is not defined"])],
              dsk)
  /\ UNCHANGED <<ignoreList, db, syncinfo, req, scans, ui, viewVars>>
  /\ UNCHANGED <<env, video, modal, progress, poll>>

\* ------------------------------------------------------------------ GET /api/batch_progress
\* Lines 302-315: running is true exactly if the file exists and parses, and
\* then the parsed fields are spread into the answer.
BatchProgressAnswer(file) ==
  IF file # None /\ file[1].parsable
    THEN [running |-> TRUE, index |-> file[1].index, total |-> file[1].total,
          current_movie |-> file[1].current_movie]
    ELSE [running |-> FALSE]

BatchProgress ==
  /\ job.pc = "idle"
  /\ poll' = Some(BatchProgressAnswer(progress))
  /\ UNCHANGED <<disk, ignoreList, db, syncinfo, req, scans, ui, viewVars>>
  /\ UNCHANGED <<env, video, job, bulkResp, modal, progress>>

\* ------------------------------------------------------------------ POST /api/run-batch-scan
\* app.js 466-471: a click on the enabled button disables it and posts the
\* request; server.cjs 425-429: every request spawns batch_scan.py.
RunBatchScan(c) ==
  /\ ~ui[c].disabled
  /\ ui' = [ui EXCEPT ![c].disabled = TRUE]
  /\ scans' = scans + 1
  /\ UNCHANGED <<disk, ignoreList, db, syncinfo, req, jobVars, viewVars>>

\* server.cjs 436-445: the process closes and its request is answered by its
\* exit code; app.js 472-485: the note is set and the button enabled again.
BatchScanClose(c, code) ==
  /\ ui[c].disabled
  /\ scans' = scans - 1
  /\ ui' = [ui EXCEPT ![c] =
       [disabled |-> FALSE,
        libNote |-> IF code = 0 THEN "Scan complete. Reloading library" ELSE "Scan failed"]]
  /\ UNCHANGED <<disk, ignoreList, db, syncinfo, req, jobVars, viewVars>>

\* ------------------------------------------------------------------ the bulk modal (app.js)
\* app.js 716-720, 741-750: a row is checked or unchecked; the Bulk Actions
\* button is enabled exactly if a row is checked.
ToggleRow(name) ==
  /\ LET checked == IF name \in modal.checked THEN modal.checked \ {name}
                    ELSE modal.checked \cup {name}
     IN  modal' = [modal EXCEPT !.checked = checked, !.bulkDisabled = (checked = {})]
  /\ UNCHANGED <<disk, ignoreList, db, syncinfo, req, scans, ui, viewVars>>
  /\ UNCHANGED <<env, video, job, bulkResp, progress, poll>>

\* app.js 752-763: Bulk Actions opens the modal on the checked rows.
OpenBulkModal ==
  /\ ~modal.bulkDisabled
  /\ modal' = [modal EXCEPT !.selection = modal.checked, !.open = TRUE]
  /\ UNCHANGED <<disk, ignoreList, db, syncinfo, req, scans, ui, viewVars>>
  /\ UNCHANGED <<env, video, job, bulkResp, progress, poll>>

\* app.js 801-806: the close button of the modal.
CloseBulkModal ==
  /\ modal.open
  /\ modal' = [modal EXCEPT !.open = FALSE, !.resultBox = FALSE]
  /\ UNCHANGED <<disk, ignoreList, db, syncinfo, req, scans, ui, viewVars>>
  /\ UNCHANGED <<env, video, job, bulkResp, progress, poll>>

\* One of the bulkAction radio buttons of the modal is checked.
ChooseAction(action) ==
  /\ modal.open
  /\ modal' = [modal EXCEPT !.action = action]
  /\ UNCHANGED <<disk, ignoreList, db, syncinfo, req, scans, ui, viewVars>>
  /\ UNCHANGED <<env, video, job, bulkResp, progress, poll>>

\* app.js 808-860: the click on Run, up to the first await.  Without a
\* chosen action the controls are released with an alert.  touch_whisper:
\* the request is sent and not awaited, the controls are released, the
\* modal is closed and the rows are unchecked.  ignore and ffsubsync: the
\* controls stay disabled and the handler awaits the response.
BulkRun ==
  /\ modal.open
  /\ ~modal.runDisabled
  /\ modal.action = "touch_whisper" => modal.inflight < MaxInflight
  /\ modal' =
       IF modal.action = ""
         THEN [modal EXCEPT !.spinner = FALSE, !.runDisabled = FALSE,
                            !.bulkDisabled = FALSE, !.note = "Choose an action first"]
       ELSE IF modal.action = "touch_whisper"
         THEN [modal EXCEPT !.inflight = @ + 1, !.spinner = FALSE,
                            !.runDisabled = FALSE, !.note = "Whisper requested",
                            !.open = FALSE, !.checked = {}, !.bulkDisabled = TRUE]
       ELSE [modal EXCEPT !.runDisabled = TRUE, !.bulkDisabled = TRUE,
                          !.spinner = TRUE, !.waiting = modal.action]
  /\ UNCHANGED <<disk, ignoreList, db, syncinfo, req, scans, ui, viewVars>>
  /\ UNCHANGED <<env, video, job, bulkResp, progress, poll>>

\* app.js 861-881: the response of the awaited request arrives (arrived) or
\* the fetch fails.  ffsubsync shows its results in the modal, ignore alerts
\* and closes the modal; in every case the finally block hides the spinner,
\* enables the controls and unchecks the rows.
BulkSettle(arrived) ==
  /\ modal.waiting # ""
  /\ modal' =
       [modal EXCEPT
          !.resultBox = IF arrived /\ modal.waiting = "ffsubsync" THEN TRUE ELSE @,
          !.note = IF ~arrived THEN "Bulk action failed"
                   ELSE IF modal.waiting = "ignore" THEN "Done" ELSE @,
          !.open = IF arrived /\ modal.waiting = "ignore" THEN FALSE ELSE @,
          !.spinner = FALSE, !.runDisabled = FALSE, !.checked = {},
          !.bulkDisabled = TRUE, !.waiting = ""]
  /\ UNCHANGED <<disk, ignoreList, db, syncinfo, req, scans, ui, viewVars>>
  /\ UNCHANGED <<env, video, job, bulkResp, progress, poll>>

\* app.js 830-836: the promise of a whisper request settles; a rejection is
\* logged to the console, a response is dropped.
WhisperSettle(arrived) ==
  /\ modal.inflight > 0
  /\ modal' = [modal EXCEPT !.inflight = @ - 1]
  /\ UNCHANGED <<disk, ignoreList, db, syncinfo, req, scans, ui, viewVars>>
  /\ UNCHANGED <<env, video, job, bulkResp, progress, poll>>

\* ------------------------------------------------------------------ batch_scan.py
\* A running scan publishes its progress after an item: batch_progress.json
\* is written (a reader can meet it half written).
ScanPublish(parsable) ==
  /\ scans > 0
  /\ progress' = Some([parsable |-> parsable, index |-> 1, total |-> 1,
                       current_movie |-> "A"])
  /\ UNCHANGED <<disk, ignoreList, db, syncinfo, req, scans, ui, viewVars>>
  /\ UNCHANGED <<env, video, job, bulkResp, modal, poll>>

\* A scan that completes, or that handles a fatal error, removes the file
\* before it exits.
ScanCleanup ==
  /\ scans > 0
  /\ progress # None
  /\ progress' = None
  /\ UNCHANGED <<disk, ignoreList, db, syncinfo, req, scans, ui, viewVars>>
  /\ UNCHANGED <<env, video, job, bulkResp, modal, poll>>

\* The process ends: with exit code 0 only after its cleanup; with another
\* code after its cleanup (a handled fatal error) or without it (a crash, a
\* kill).
ScanExit(c, code) ==
  /\ code = 0 => progress = None
  /\ BatchScanClose(c, code)

\* ------------------------------------------------------------------ specifications
\* One re-analysis request at a time, against a library and a data directory
\* that change freely between and during the requests.
Next ==
  \/ \E m \in Movies, f \in {"en", "fi", "whisper", "ffsync"}, t \in {Absent, FirstStamp} :
       SetFile(m, f, t)
  \/ \E m \in Movies : SetDir(m)
  \/ \E m \in Movies : ReanalyzeStart(1, m)
  \/ ReanalyzeResume(1)
  \/ \E ms \in {<<m>> : m \in Movies} \cup {<<m, n>> : m \in Movies, n \in Movies} :
       BulkIgnore(ms)

Spec == Init /\ [][Next]_vars

\* Concurrent re-analysis requests for items that have an EN and a FI
\* subtitle (both of the first production time) and no row yet, while the
\* whisper reference and the ffsubsync output appear, with any production
\* time, and disappear.
InitConc ==
  /\ InitServer
  /\ InitDeployment
  /\ disk \in [Movies -> {d \in DiskLayouts(Stamps) :
                            d.dir /\ d.fi = FirstStamp /\ d.en = FirstStamp}]
  /\ db = {}

NextConc ==
  \/ \E m \in Movies, f \in {"whisper", "ffsync"}, t \in {Absent} \cup Stamps :
       SetFile(m, f, t)
  \/ \E r \in Reqs, m \in Movies : ReanalyzeStart(r, m)
  \/ \E r \in Reqs : ReanalyzeResume(r)

SpecConc == InitConc /\ [][NextConc]_vars

\* Repeated and overlapping re-analysis requests over a library that does
\* not change: every selection of a behaviour meets the same candidates.
InitArb ==
  /\ InitServer
  /\ InitDeployment
  /\ disk \in [Movies -> {d \in DiskLayouts(Stamps) : d.dir /\ d.fi = FirstStamp}]
  /\ db \in {t \in SUBSET PriorRows : \A m \in Movies : Cardinality(getMovie(t, m)) <= 1}

NextArb ==
  \/ \E r \in Reqs, m \in Movies : ReanalyzeStart(r, m)
  \/ \E r \in Reqs : ReanalyzeResume(r)

SpecArb == InitArb /\ [][NextArb]_vars

\* Every handler that is not the full rescan - single re-analysis and the
\* three bulk actions, here with one item per bulk request - over a store
\* that holds a row of the movie, whose media directory comes and goes.
InitStore ==
  /\ InitServer
  /\ InitDeployment
  /\ disk \in [Movies -> {d \in DiskLayouts({FirstStamp}) :
                            d.en = d.fi /\ d.ffsync = Absent}]
  /\ db \in {{x} : x \in PriorRows}

NextStore ==
  \/ \E m \in Movies : SetDir(m)
  \/ \E m \in Movies : ReanalyzeStart(1, m)
  \/ ReanalyzeResume(1)
  \/ \E n \in Names : BulkIgnore(<<n>>)
  \/ \E n \in Names, failing \in SUBSET {1}, now \in Nows : BulkTouchWhisper(<<n>>, failing, now)
  \/ \E n \in Names : BulkFfsubsync(<<n>>)
  \/ \E outcome \in {"spawn_error", "nonzero", "ok"}, now \in Nows : FfsubsyncExit(outcome, now)

SpecStore == InitStore /\ [][NextStore]_vars

\* One page: the rows, the Bulk Actions button and the bulk modal.
InitUi ==
  /\ InitServer
  /\ InitDeployment
  /\ disk = [m \in Movies |-> [dir |-> TRUE, en |-> Absent, fi |-> Absent,
                               whisper |-> Absent, ffsync |-> Absent]]
  /\ db = {}

NextUi ==
  \/ \E n \in Names : ToggleRow(n)
  \/ OpenBulkModal
  \/ CloseBulkModal
  \/ \E a \in {"touch_whisper", "ignore", "ffsubsync"} : ChooseAction(a)
  \/ BulkRun
  \/ \E arrived \in BOOLEAN : BulkSettle(arrived)
  \/ \E arrived \in BOOLEAN : WhisperSettle(arrived)

SpecUi == InitUi /\ [][NextUi]_vars

\* The batch-scan trigger, from several browser tabs.
InitScan ==
  /\ InitServer
  /\ InitDeployment
  /\ disk = [m \in Movies |-> [dir |-> TRUE, en |-> Absent, fi |-> Absent,
                               whisper |-> Absent, ffsync |-> Absent]]
  /\ db = {}

NextScan ==
  \/ \E c \in Clients : RunBatchScan(c)
  \/ \E c \in Clients, code \in {0, 1} : ScanExit(c, code)
  \/ \E parsable \in BOOLEAN : ScanPublish(parsable)
  \/ ScanCleanup
  \/ BatchProgress

SpecScan == InitScan /\ [][NextScan]_vars

\* The bulk ignore handler and single re-analysis requests, with
\* SYNCORBIT_DATA unset or set to another directory; the media directory of
\* a movie with both subtitles disappears and comes back.
BulkRequests == UNION {[1..n -> Names] : n \in 0..MaxBulk}

InitIgnore ==
  /\ InitServer
  /\ env \in {None, Some(<<"srv", "data">>)}
  /\ video = [m \in Movies |-> TRUE]
  /\ disk \in [Movies -> {d \in DiskLayouts({FirstStamp}) :
                            d.dir /\ d.fi # Absent /\ d.ffsync = Absent}]
  /\ db \in {t \in SUBSET PriorRows : \A m \in Movies : Cardinality(getMovie(t, m)) <= 1}

NextIgnore ==
  \/ \E ms \in BulkRequests : BulkIgnore(ms)
  \/ \E m \in Movies : SetDir(m)
  \/ \E m \in Movies : ReanalyzeStart(1, m)
  \/ ReanalyzeResume(1)

SpecIgnore == InitIgnore /\ [][NextIgnore]_vars

\* The bulk touch-whisper and ffsubsync handlers and the progress poll in one
\* server process, over every layout of the library.
InitBulk ==
  /\ InitServer
  /\ env = None
  /\ video \in [Movies -> BOOLEAN]
  /\ disk \in [Movies -> {d \in DiskLayouts({FirstStamp}) : d.fi = Absent}]
  /\ db = {}

NextBulk ==
  \/ \E ms \in BulkRequests, failing \in SUBSET (1..MaxBulk), now \in Nows :
       BulkTouchWhisper(ms, failing, now)
  \/ \E ms \in BulkRequests : BulkFfsubsync(ms)
  \/ \E outcome \in {"spawn_error", "nonzero", "ok"}, now \in Nows : FfsubsyncExit(outcome, now)
  \/ BatchProgress

SpecBulk == InitBulk /\ [][NextBulk]_vars

\* ------------------------------------------------------------------ steps of a request
\* Request r is answered in this step (by a failed check or after the analyzer).
Answered(r) == req'[r] # req[r] /\ req'[r].pc = "done"

\* Request r passes the checks in this step and calls the analyzer.
Selected(r) == req[r].pc # "await" /\ req'[r].pc = "await"

\* Request r resumes after the analyzer in this step.
Resumed(r) == req[r].pc = "await" /\ req'[r].pc = "done"

Eligible(movie) ==
  /\ disk[movie].dir
  /\ ~Includes(ignoreList, movie)
  /\ disk[movie].fi # Absent

Kinds == {"whisper", "ffsync", "en"}
Existing(dsk) == {k \in Kinds : dsk[k] # Absent}
Priority(k) == IF k = "whisper" THEN 3 ELSE IF k = "ffsync" THEN 2 ELSE 1

\* The summary fields a row must carry for each analyzer output.
Derived(data) ==
  IF data = DataFull
    THEN [anchor_count |-> 12, avg_offset |-> 1, drift_span |-> 3, decision |-> "synced"]
    ELSE [anchor_count |-> 7, avg_offset |-> 40, drift_span |-> 90, decision |-> "unknown"]

\* ------------------------------------------------------------------ C1
\* C1 (sticky ignore flag): in every step, a row that has ignored = 1 still
\* exists with ignored = 1 afterwards, whether the re-analysis taking the step
\* succeeds or fails.
C1_IgnoredSticky ==
  [][\A x \in db : x.ignored = 1 =>
       \E y \in db' : y.movie = x.movie /\ y.ignored = 1]_vars

\* ------------------------------------------------------------------ C2
\* C2 (monotonic whisper flag): in every step, a row that has has_whisper = 1
\* is not rewritten with has_whisper = 0, also when the whisper reference is
\* absent from disk at that time.
C2_WhisperMonotonic ==
  [][\A x \in db : x.has_whisper = 1 =>
       \A y \in db' : y.movie = x.movie => y.has_whisper = 1]_vars

\* ------------------------------------------------------------------ C3
\* C3 (no clobber on failure): a step that answers a re-analysis request with
\* ok = false leaves every row of the store as it was.
C3_NoClobberOnFailure ==
  [][\A r \in Reqs : (Answered(r) /\ ~req'[r].resp[1].ok) => db' = db]_vars

C5_AtMostOneScan == scans <= 1

\* ------------------------------------------------------------------ C6
\* C6 (gate policy): a re-analysis replaces a stored row only if the candidate
\* it was computed against is not older than the candidate the stored row was
\* computed against (production times of the two artifacts on disk).
C6_GatePolicy ==
  [][\A r \in Reqs :
       (Resumed(r) /\ db' # db) =>
         \A x \in getMovie(db, req[r].movie) :
           (disk[req[r].movie][req[r].refType] # Absent
              /\ disk[req[r].movie][x.best_reference] # Absent)
             => disk[req[r].movie][req[r].refType] >= disk[req[r].movie][x.best_reference]]_vars

\* ------------------------------------------------------------------ C7
\* C7 (newest reference wins): the candidate a re-analysis selects has the
\* latest production time of the candidates on disk, and the highest
\* priority (whisper > ffsync > en) among those of equal time.
C7_NewestReferenceWins ==
  [][\A r \in Reqs :
       Selected(r) =>
         \A k \in Existing(disk[req'[r].movie]) :
           \/ disk[req'[r].movie][k] < disk[req'[r].movie][req'[r].refType]
           \/ /\ disk[req'[r].movie][k] = disk[req'[r].movie][req'[r].refType]
              /\ Priority(k) <= Priority(req'[r].refType)]_vars

\* ------------------------------------------------------------------ C8
\* C8 (scenario A): for an item with exactly the candidates en (t = 10) and
\* ffsync (t = 20), a Finnish target and no row, a re-analysis selects the
\* ffsync artifact, and the row a re-analysis creates carries the reference
\* it selected: best_reference = ffsync, reference_path = the ffsync file.
C8_ScenarioA ==
  [][\A r \in Reqs :
       /\ \A m \in Movies :
            ( /\ req[r].pc # "await" /\ req'[r] # req[r] /\ req'[r].movie = m
              /\ disk[m].dir /\ disk[m].fi # Absent /\ ~Includes(ignoreList, m)
              /\ disk[m].en = 10 /\ disk[m].ffsync = 20 /\ disk[m].whisper = Absent
              /\ getMovie(db, m) = {} )
            => /\ req'[r].pc = "await"
               /\ req'[r].refType = "ffsync"
               /\ req'[r].ref = <<"app", "data", "resync", m, SyncedName>>
       /\ (Resumed(r) /\ req'[r].resp[1].ok /\ getMovie(db, req[r].movie) = {})
            => \E y \in db' : /\ y.movie = req[r].movie
                              /\ y.best_reference = req[r].refType
                              /\ y.reference_path = req[r].ref]_vars

\* Scenario A has run: the candidates are as stated and the row created by a
\* successful re-analysis names the ffsync artifact.
C8_Witness ==
  \E r \in Reqs, m \in Movies :
    /\ req[r].pc = "done" /\ req[r].movie = m /\ req[r].resp[1].ok
    /\ disk[m].en = 10 /\ disk[m].ffsync = 20 /\ disk[m].whisper = Absent
    /\ \E y \in getMovie(db, m) :
         /\ y.best_reference = "ffsync"
         /\ y.reference_path = <<"app", "data", "resync", m, SyncedName>>
         /\ y.has_whisper = 0

C10_NoCandidateNoAlignment ==
  [][\A r \in Reqs, m \in Movies :
       ( /\ req[r].pc # "await" /\ req'[r] # req[r] /\ req'[r].movie = m
         /\ Existing(disk[m]) = {} )
       => /\ req'[r].pc = "done"
          /\ ~req'[r].resp[1].ok
          /\ (disk[m].dir /\ ~Includes(ignoreList, m))
               => req'[r].resp[1].error = "no_english_reference"
          /\ db' = db
          /\ syncinfo' = syncinfo]_vars

\* A request for an existing, not ignored item without any candidate was rejected.
C10_Witness ==
  \E r \in Reqs :
    /\ req[r].pc = "done"
    /\ req[r].resp[1].error = "no_english_reference"
    /\ disk[req[r].movie].dir /\ disk[req[r].movie].fi # Absent
    /\ Existing(disk[req[r].movie]) = {}

\* ------------------------------------------------------------------ C11
\* C11 (ignored items are not re-analysed): a re-analysis request for an item
\* that the bulk ignore handler has put on the ignore list is answered at
\* once with ok = false and error 'ignored', without the analyzer being
\* called, and the step leaves the rows and the analysis files as they were.
C11_IgnoredRejected ==
  [][\A r \in Reqs, m \in Movies :
       ( /\ req[r].pc # "await" /\ req'[r] # req[r] /\ req'[r].movie = m
         /\ Includes(ignoreList, m) )
       => /\ req'[r].pc = "done"
          /\ ~req'[r].resp[1].ok
          /\ req'[r].resp[1].error = "ignored"
          /\ db' = db
          /\ syncinfo' = syncinfo]_vars

\* ------------------------------------------------------------------ C12
\* C12 (scenario C): the bulk ignore request for <<"A", "B">>, where "A" has
\* a media directory and "B" has none, is answered with one result per item,
\* a success for "A" and a NotFound error for "B"; afterwards "A" is on the
\* ignore list and "B" is not.
C12_ScenarioC ==
  [][(BulkIgnore(<<"A", "B">>) /\ disk["A"].dir /\ "B" \notin Movies)
       => /\ bulkResp'[1].results = Some(<<[movie |-> "A"]>>)
          /\ bulkResp'[1].errors = Some(<<[movie |-> "B", error |-> "NotFound"]>>)
          /\ Includes(ignoreList', "A")
          /\ ~Includes(ignoreList', "B")]_vars

\* ------------------------------------------------------------------ C13
\* The item is named by an entry of results or of errors.
Listed(name, results, errors) ==
  \/ \E i \in 1..Len(results) : results[i].movie = name
  \/ \E i \in 1..Len(errors) : errors[i].movie = name

AllListed(movies, results, errors) ==
  \A i \in 1..Len(movies) : Listed(movies[i], results, errors)

\* The ffsubsync handler has answered for every item of the request, or it
\* is at a later item of the request with every earlier one accounted for.
Handled(request, j, resp) ==
  IF j.pc = "idle"
    THEN AllListed(request, resp[1].results[1], resp[1].errors[1])
    ELSE /\ j.request = request
         /\ \E n \in 0..(Len(request) - 1) :
              /\ j.movies = SubSeq(request, n + 1, Len(request))
              /\ AllListed(SubSeq(request, 1, n), j.results, j.errors)

\* C13 (partial-success batches): the answer of a bulk touch-whisper request
\* names every requested item in results or in errors, and every item whose
\* reference exists and whose utimes call does not fail is touched, whatever
\* happened to the items before it; the bulk ffsubsync handler goes on to the
\* next item after every failure (missing directory, video or subtitle,
\* spawn error, non-zero exit, exception) and its answer names every
\* requested item in results or in errors.
C13_PartialSuccess ==
  [][/\ \A ms \in BulkRequests, failing \in SUBSET (1..MaxBulk), now \in Nows :
          BulkTouchWhisper(ms, failing, now)
            => /\ AllListed(ms, bulkResp'[1].results[1], bulkResp'[1].errors[1])
               /\ \A i \in 1..Len(ms) :
                    (ms[i] \in Movies /\ i \notin failing /\ disk[ms[i]].whisper # Absent)
                      => /\ disk'[ms[i]].whisper = now
                         /\ \E k \in 1..Len(bulkResp'[1].results[1]) :
                              bulkResp'[1].results[1][k].movie = ms[i]
     /\ \A ms \in BulkRequests : BulkFfsubsync(ms) => Handled(ms, job', bulkResp')
     /\ job.pc = "spawnSync" => Handled(job.request, job', bulkResp')]_vars

\* A bulk request was answered with a failure for one item and a result for
\* another item.
C13_Witness ==
  /\ bulkResp # None
  /\ bulkResp[1].results # None
  /\ \E i \in 1..Len(bulkResp[1].errors[1]), k \in 1..Len(bulkResp[1].results[1]) :
       /\ bulkResp[1].errors[1][i].movie = "B"
       /\ bulkResp[1].results[1][k].movie = "A"

\* ------------------------------------------------------------------ C19
\* An external tool started by the server is running: the analyzer of a
\* re-analysis request, a batch scan, or ffsubsync of a bulk request.
ToolRunning ==
  \/ \E r \in Reqs : req[r].pc = "await"
  \/ scans > 0
  \/ job.pc = "spawnSync"

\* C19 (progress polling stays responsive): whenever an external tool started
\* by the server is running, the server can answer GET /api/batch_progress.
C19_PollResponsive == ToolRunning => ENABLED BatchProgress

\* ------------------------------------------------------------------ C14
\* C14 (no stuck running flag): once no batch scan process is alive, however
\* the last one ended, a progress poll is answered running = false (nothing
\* but a scan changes the progress file, so what the poll reports then is
\* what it reports from then on), and a trigger can start a new run.
C14_NoStuckRunning ==
  [][scans = 0 =>
       /\ BatchProgress => ~poll'[1].running
       /\ \E c \in Clients : ENABLED RunBatchScan(c)]_vars

\* ------------------------------------------------------------------ C15
\* C15 (one record per item): before and after every step the store holds at
\* most one row per item; a successful re-analysis of an item without a row
\* adds exactly one row, for that item, and a successful re-analysis of an
\* item that has a row leaves the number of rows as it is.
C15_OneRecordPerItem ==
  [][/\ \A m \in Movies :
          Cardinality(getMovie(db, m)) <= 1 /\ Cardinality(getMovie(db', m)) <= 1
     /\ \A r \in Reqs :
          (Resumed(r) /\ req'[r].resp[1].ok)
            => /\ Cardinality(getMovie(db', req[r].movie)) = 1
               /\ getMovie(db, req[r].movie) = {}
                    => \E y \in db' : y.movie = req[r].movie /\ db' = db \cup {y}
               /\ getMovie(db, req[r].movie) # {}
                    => Cardinality(db') = Cardinality(db)]_vars

\* Two requests for the same item, which has a whisper reference, have both
\* succeeded, and the item has one row.
C15_Witness ==
  \E r, q \in Reqs :
    /\ r # q
    /\ req[r].pc = "done" /\ req[r].resp[1].ok
    /\ req[q].pc = "done" /\ req[q].resp[1].ok
    /\ req[q].movie = req[r].movie
    /\ Cardinality(getMovie(db, req[r].movie)) = 1
    /\ disk[req[r].movie].whisper # Absent

\* ------------------------------------------------------------------ C16
\* Row x is what a successful re-analysis of its item stores from analyzer
\* output data and the files now on disk.
StoredFrom(x, data) ==
  LET sel == SelectReference(disk[x.movie], x.movie)
  IN  /\ x.anchor_count = Derived(data).anchor_count
      /\ x.avg_offset = Derived(data).avg_offset
      /\ x.drift_span = Derived(data).drift_span
      /\ x.decision = Derived(data).decision
      /\ x.best_reference = sel.refType
      /\ x.reference_path = sel.ref
      /\ x.has_whisper = hasWhisper(disk[x.movie])
      /\ x.has_ffsubsync = hasFfsubsync(disk[x.movie])

\* C16 (idempotent re-analysis): when the stored row of an item is the
\* outcome of a re-analysis of the files now on disk, a further successful
\* re-analysis of the same files (selected and analysed with no file
\* changing) that gets the same analyzer output leaves anchor_count,
\* avg_offset, drift_span, decision, best_reference, reference_path,
\* has_whisper, has_ffsubsync and ignored of the row as they are.
C16_Idempotent ==
  [][\A r \in Reqs :
       (Resumed(r) /\ req'[r].resp[1].ok)
         => \A x \in getMovie(db, req[r].movie), data \in AlignData :
              ( /\ StoredFrom(x, data)
                /\ req[r].refType = x.best_reference
                /\ \E y \in getMovie(db', req[r].movie) :
                     /\ y.anchor_count = Derived(data).anchor_count
                     /\ y.decision = Derived(data).decision )
              => \A y \in getMovie(db', req[r].movie) :
                   /\ y.anchor_count = x.anchor_count
                   /\ y.avg_offset = x.avg_offset
                   /\ y.drift_span = x.drift_span
                   /\ y.decision = x.decision
                   /\ y.best_reference = x.best_reference
                   /\ y.reference_path = x.reference_path
                   /\ y.has_whisper = x.has_whisper
                   /\ y.has_ffsubsync = x.has_ffsubsync
                   /\ y.ignored = x.ignored]_vars

C18_NoPruning ==
  [][\A x \in db : \E y \in db' : y.movie = x.movie]_vars

\* The media directory of an item is gone, a re-analysis of the item was
\* answered movie_not_found, a bulk action on it has failed, and its row is
\* in the store.
C18_Witness ==
  \E m \in Movies :
    /\ ~disk[m].dir
    /\ req[1].pc = "done" /\ req[1].movie = m
    /\ req[1].resp[1].error = "movie_not_found"
    /\ bulkResp # None /\ bulkResp[1].errors # None
    /\ \E i \in 1..Len(bulkResp[1].errors[1]) : bulkResp[1].errors[1][i].movie = m
    /\ Includes(ignoreList, m)
    /\ getMovie(db, m) # {}

\* ------------------------------------------------------------------ C20
\* C20 (fire-and-forget whisper requests): the click that runs touch_whisper
\* sends the request and in the same step hides the spinner, enables the Run
\* button, closes the modal and unchecks the rows (the Bulk Actions button
\* is back under the selection, which is empty), without awaiting anything;
\* when the request settles later nothing of the page changes.  While the
\* response of an ignore or ffsubsync request is awaited the spinner is
\* shown and both buttons are disabled, and they are released only by the
\* step in which the response or the failure arrives.
C20_FireAndForget ==
  [][/\ (BulkRun /\ modal.action = "touch_whisper")
          => /\ modal'.inflight = modal.inflight + 1
             /\ modal'.waiting = ""
             /\ ~modal'.spinner /\ ~modal'.runDisabled
             /\ ~modal'.open /\ modal'.checked = {}
             /\ modal'.bulkDisabled = (modal'.checked = {})
     /\ modal'.inflight < modal.inflight
          => modal' = [modal EXCEPT !.inflight = modal'.inflight]
     /\ modal'.waiting \in {"", "ignore", "ffsubsync"}
     /\ modal'.waiting # ""
          => modal'.spinner /\ modal'.runDisabled /\ modal'.bulkDisabled
     /\ (modal.waiting # "" /\ modal'.waiting = "")
          => \E arrived \in BOOLEAN : BulkSettle(arrived)]_vars


\* ------------------------------------------------------------------ GET /api/library
\* The titles of a library of three: "A" has a media directory, the rows of
\* "B" and "C" were written while theirs existed.
Shelf == Names \cup {"C"}

\* COALESCE(fi_mtime, 0).
SortKey(x) == Coalesce(x.fi_mtime, Some(0))[1]

\* An engine that sorts ascending.
Ordered_Ascending(rows) ==
  \A i, j \in 1..Len(rows) : i < j => SortKey(rows[i]) <= SortKey(rows[j])

\* ORDER BY COALESCE(fi_mtime, 0) DESC.
Ordered(rows) ==
  \A i, j \in 1..Len(rows) : i < j => SortKey(rows[i]) >= SortKey(rows[j])

\* What the SELECT can return: each row of the table once, in an order the
\* ORDER BY clause allows (rows with equal keys come in any order).
Selections(t) ==
  {q \in [1..Cardinality(t) -> t] :
     (\A x \in t : \E i \in 1..Cardinality(t) : q[i] = x) /\ Ordered(q)}

\* The twelve selected columns (state is not among them), with has_whisper,
\* has_ffsubsync and ignored turned into booleans by !!.
LibraryRow(x) ==
  [movie |-> x.movie, anchor_count |-> x.anchor_count, avg_offset |-> x.avg_offset,
   drift_span |-> x.drift_span, decision |-> x.decision,
   best_reference |-> x.best_reference, reference_path |-> x.reference_path,
   has_whisper |-> x.has_whisper # 0, has_ffsubsync |-> x.has_ffsubsync # 0,
   fi_mtime |-> x.fi_mtime, last_analyzed |-> x.last_analyzed,
   ignored |-> x.ignored # 0]

\* The handler: the rows, or ok: false when the query throws.
Library(throws) ==
  /\ job.pc = "idle"
  /\ IF throws
       THEN listing' = Some([ok |-> FALSE, rows |-> <<>>])
       ELSE \E q \in Selections(db) :
              listing' = Some([ok |-> TRUE,
                               rows |-> [i \in 1..Len(q) |-> LibraryRow(q[i])]])
  /\ UNCHANGED <<disk, ignoreList, db, syncinfo, req, scans, ui, jobVars>>
  /\ UNCHANGED <<schema, libraryTableBody, samples, curve, hover>>


\* ------------------------------------------------------------------ the library table
\* rows.sort with librarySortKey 'fi_mtime' and librarySortDir 'desc' (the
\* values the page starts with): the comparator reads null as 0, and the sort
\* is stable.
InsertRow(sorted, r) ==
  LET k == Cardinality({i \in 1..Len(sorted) : SortKey(sorted[i]) >= SortKey(r)})
  IN  SubSeq(sorted, 1, k) \o <<r>> \o SubSeq(sorted, k + 1, Len(sorted))

RECURSIVE SortRows(_)
SortRows(rows) ==
  IF rows = <<>> THEN <<>>
  ELSE InsertRow(SortRows(SubSeq(rows, 1, Len(rows) - 1)), rows[Len(rows)])

\* A table cell: the placeholder '-', or a value as the page formats it.
Dash(blank) == [dash |-> TRUE, text |-> blank, decimals |-> 0]

\* safe(v) of a number: no decimals from 100 on, one from 10 on, two below.
safe(v) ==
  LET abs == IF v < 0 THEN -v ELSE v
  IN  [dash |-> FALSE, text |-> v,
       decimals |-> IF abs >= 100 THEN 0 ELSE IF abs >= 10 THEN 1 ELSE 2]

\* shortStatus(s): the id of the status <div>.
shortStatus(s) ==
  [dash |-> FALSE,
   text |-> IF s = "synced" THEN "status-synced"
            ELSE IF s = "needs_adjustment" THEN "status-adjust"
            ELSE "status-bad",
   decimals |-> 0]

\* r.state of a row the page holds: undefined (None) when the row has no such
\* property.
RowState(r) == IF "state" \in DOMAIN r THEN Some(r.state) ELSE None

\* One <tr> of renderLibraryTable: dimmed and its four quality cells replaced
\* by '-' when r.state !== 'ok'.
RenderRow(r) ==
  LET dimmed == RowState(r) # Some("ok")
  IN  [movie |-> r.movie, dimmed |-> dimmed,
       anchor_count |-> IF dimmed THEN Dash(0)
                        ELSE [dash |-> FALSE, text |-> r.anchor_count, decimals |-> 0],
       avg_offset |-> IF dimmed THEN Dash(0) ELSE safe(r.avg_offset),
       drift_span |-> IF dimmed THEN Dash(0) ELSE safe(r.drift_span),
       decision |-> IF dimmed THEN Dash("") ELSE shortStatus(r.decision)]

\* loadLibrary once the response of /api/library has arrived, with the
\* renderLibraryTable it calls (no search term, no status filter, fewer rows
\* than the limit): a response that is not ok, or one without rows, leaves a
\* message in place of the data rows.
LoadLibrary ==
  /\ listing # None
  /\ LET json == listing[1]
         libraryRows == IF json.ok THEN json.rows ELSE <<>>
         limited == SortRows(libraryRows)
     IN  libraryTableBody' = [i \in 1..Len(limited) |-> RenderRow(limited[i])]
  /\ UNCHANGED <<disk, ignoreList, db, syncinfo, req, scans, ui, jobVars>>
  /\ UNCHANGED <<schema, listing, samples, curve, hover>>

\* A library of up to three records; a record comes with or without a target
\* subtitle time, in state ok or missing_subtitles.
ShelfRows ==
  {[PriorRow(m, 0, st) EXCEPT !.fi_mtime = t] :
     m \in Shelf, st \in {"ok", "missing_subtitles"},
     t \in {None} \cup {Some(u) : u \in Stamps}}

InitLibrary ==
  /\ InitServer
  /\ InitDeployment
  /\ disk = [m \in Movies |-> [dir |-> TRUE, en |-> FirstStamp, fi |-> FirstStamp,
                               whisper |-> Absent, ffsync |-> Absent]]
  /\ db \in {t \in SUBSET ShelfRows : \A m \in Shelf : Cardinality(getMovie(t, m)) <= 1}

NextLibrary ==
  \/ \E throws \in BOOLEAN : Library(throws)
  \/ LoadLibrary

SpecLibrary == InitLibrary /\ [][NextLibrary]_vars

\* The stored record a listed or rendered row stands for.
Stored(movie) == CHOOSE x \in db : x.movie = movie

\* ------------------------------------------------------------------ C21
\* C21: an answer of GET /api/library that is ok holds every stored record
\* exactly once (as many rows as records, each record's twelve columns
\* among them), ordered by target subtitle time descending with a null time
\* counted as 0, hence after every record with a positive time.
C21_LibraryOrder ==
  [][\A throws \in BOOLEAN :
       Library(throws) /\ listing'[1].ok =>
         LET rows == listing'[1].rows
         IN  /\ Len(rows) = Cardinality(db)
             /\ \A x \in db : \E i \in 1..Len(rows) : rows[i] = LibraryRow(x)
             /\ \A i, j \in 1..Len(rows) :
                  i < j => /\ rows[i].movie # rows[j].movie
                           /\ rows[i].fi_mtime = None => rows[j].fi_mtime = None
                           /\ (rows[i].fi_mtime # None /\ rows[j].fi_mtime # None)
                                => rows[i].fi_mtime[1] >= rows[j].fi_mtime[1]]_vars

\* A listing of three records: two with different times, the later first, and
\* one without a time, last.
C21_Witness ==
  /\ listing # None
  /\ listing[1].ok
  /\ Len(listing[1].rows) = 3
  /\ listing[1].rows[1].fi_mtime # None
  /\ listing[1].rows[2].fi_mtime # None
  /\ listing[1].rows[1].fi_mtime[1] > listing[1].rows[2].fi_mtime[1]
  /\ listing[1].rows[3].fi_mtime = None


\* ------------------------------------------------------------------ C22
\* C22 (state repaired by success): a step that answers a re-analysis request
\* with ok = true, for an item whose row had a state other than ok before the
\* step, leaves the row of that item with state = ok.
C22_StateRepaired ==
  [][\A r \in Reqs :
       (/\ Resumed(r)
        /\ req'[r].resp[1].ok
        /\ \E x \in getMovie(db, req[r].movie) : x.state # "ok")
         => \A y \in getMovie(db', req[r].movie) : y.state = "ok"]_vars


\* ------------------------------------------------------------------ C23
\* C23 (stale quality fields are flagged, valid ones shown): every row the
\* page renders from a listing is dimmed, and each of its four quality cells
\* (anchor count, average offset, drift span, decision) is the placeholder,
\* if and only if the state of the stored record is not ok; the row of a
\* record whose state is ok shows the stored values.
C23_StaleFlagged ==
  [][LoadLibrary =>
       \A i \in 1..Len(libraryTableBody') :
         LET tr == libraryTableBody'[i]
             x == Stored(tr.movie)
         IN  /\ tr.dimmed <=> x.state # "ok"
             /\ tr.anchor_count.dash <=> x.state # "ok"
             /\ tr.avg_offset.dash <=> x.state # "ok"
             /\ tr.drift_span.dash <=> x.state # "ok"
             /\ tr.decision.dash <=> x.state # "ok"
             /\ x.state = "ok" =>
                  /\ tr.anchor_count.text = x.anchor_count
                  /\ tr.avg_offset = safe(x.avg_offset)
                  /\ tr.drift_span = safe(x.drift_span)
                  /\ tr.decision = shortStatus(x.decision)]_vars


\* ------------------------------------------------------------------ restart
\* The node process ends and the container starts it again (it is the
\* container's only command, so the processes it spawned end with it).
\* What it held in memory is gone: requests in flight, the bulk handler's
\* loop.  A tab waiting for the answer of /api/run-batch-scan sees its fetch
\* reject (app.js 479-485).  The files under /app/data stay as they are:
\* nothing in server.cjs removes batch_progress.json, at start or later.
Restart ==
  /\ req' = [r \in Reqs |-> Idle]
  /\ job' = JobIdle
  /\ scans' = 0
  /\ ui' = [c \in Clients |->
              IF ui[c].disabled THEN [disabled |-> FALSE, libNote |-> "Error"]
              ELSE ui[c]]
  /\ UNCHANGED <<disk, ignoreList, db, syncinfo, viewVars>>
  /\ UNCHANGED <<env, video, bulkResp, modal, progress, poll>>

\* The batch-scan trigger and the progress poll of a service that restarts.
NextRestart ==
  \/ \E c \in Clients : RunBatchScan(c)
  \/ \E c \in Clients, code \in {0, 1} : ScanExit(c, code)
  \/ \E parsable \in BOOLEAN : ScanPublish(parsable)
  \/ ScanCleanup
  \/ BatchProgress
  \/ Restart

SpecRestart == InitScan /\ [][NextRestart]_vars

\* ------------------------------------------------------------------ C24
\* C24 (progress is transient and absence means idle): every poll is
\* answered; the answer is running = false when no progress value exists or
\* the stored one does not parse, and running = true with the stored index,
\* total and current item when one exists; a poll that follows a restart of
\* the service, before any new rescan, is answered running = false.
C24_ProgressTransient ==
  [][/\ BatchProgress =>
          /\ poll' # None
          /\ (progress = None \/ ~progress[1].parsable) => ~poll'[1].running
          /\ (progress # None /\ progress[1].parsable) =>
               /\ poll'[1].running
               /\ poll'[1].index = progress[1].index
               /\ poll'[1].total = progress[1].total
               /\ poll'[1].current_movie = progress[1].current_movie
     /\ Restart => ~BatchProgressAnswer(progress').running]_vars


\* ------------------------------------------------------------------ whisper references
\* Every operation of the service that takes a movie or starts a scan, for a
\* movie with both subtitles, over a data directory where its whisper
\* reference and its ffsubsync output exist or not.
InitWhisper ==
  /\ InitServer
  /\ InitDeployment
  /\ disk \in [Movies -> {d \in DiskLayouts({FirstStamp}) :
                            d.dir /\ d.en # Absent /\ d.fi # Absent}]
  /\ db = {}

\* The touch requests of that specification: two items each.
TouchRequests == {<<a, b>> : a, b \in Names}

NextWhisper ==
  \/ \E m \in Movies : ReanalyzeStart(1, m)
  \/ ReanalyzeResume(1)
  \/ \E m \in Movies : BulkIgnore(<<m>>)
  \/ \E ms \in TouchRequests, failing \in SUBSET {1}, now \in Nows :
       BulkTouchWhisper(ms, failing, now)
  \/ \E m \in Movies : BulkFfsubsync(<<m>>)
  \/ \E outcome \in {"spawn_error", "nonzero", "ok"}, now \in Nows : FfsubsyncExit(outcome, now)
  \/ RunBatchScan(1)
  \/ \E code \in {0, 1} : BatchScanClose(1, code)

SpecWhisper == InitWhisper /\ [][NextWhisper]_vars

RECURSIVE Gcd(_, _)
Gcd(a, b) == IF b = 0 THEN a ELSE Gcd(b, a % b)

Abs(x) == IF x < 0 THEN -x ELSE x

Rat(n, d) ==
  LET g == Gcd(Abs(n), Abs(d))
      sgn == IF d < 0 THEN -1 ELSE 1
  IN  [n |-> (sgn * n) \div g, d |-> (sgn * d) \div g]

RInt(k) == [n |-> k, d |-> 1]
RAdd(p, q) == Rat(p.n * q.d + q.n * p.d, p.d * q.d)
RSub(p, q) == Rat(p.n * q.d - q.n * p.d, p.d * q.d)
RMul(p, q) == Rat(p.n * q.n, p.d * q.d)
RDiv(p, q) == Rat(p.n * q.d, p.d * q.n)
RLess(p, q) == p.n * q.d < q.n * p.d
RLeq(p, q) == p.n * q.d <= q.n * p.d

\* ------------------------------------------------------------------ cubicSpline
MaxT == 4          \* the t of a sample is one of 0 .. MaxT
MaxLen == 4        \* samples in one input
Deltas == {-1, 0, 2}

STEPS == 6         \* samples per interval

\* The inputs: up to MaxLen samples with strictly increasing t.
SampleInputs ==
  UNION {{[xs |-> [i \in 1..n |-> RInt(ts[i])], ys |-> [i \in 1..n |-> RInt(ds[i])]] :
            ts \in {q \in [1..n -> 0..MaxT] : \A i \in 1..(n - 1) : q[i] < q[i + 1]},
            ds \in [1..n -> Deltas]} : n \in 0..MaxLen}

\* Lines 104-143: the arrays a, b, c, d of the natural spline through the
\* samples, one record per index 0 .. n-1 (h, alpha, l, mu, z as in the code).
SplineCoefficients(xs, ys) ==
  LET n == Len(xs)
      x(i) == xs[i + 1]
      a(i) == ys[i + 1]
      h(i) == RSub(x(i + 1), x(i))
      alpha(i) ==
        RSub(RMul(RDiv(RInt(3), h(i)), RSub(a(i + 1), a(i))),
             RMul(RDiv(RInt(3), h(i - 1)), RSub(a(i), a(i - 1))))
      fw[i \in 0..(n - 2)] ==
        IF i = 0 THEN [l |-> RInt(1), mu |-> RInt(0), z |-> RInt(0)]
        ELSE LET prev == fw[i - 1]
                 li == RSub(RMul(RInt(2), RSub(x(i + 1), x(i - 1))),
                            RMul(h(i - 1), prev.mu))
             IN  [l |-> li, mu |-> RDiv(h(i), li),
                  z |-> RDiv(RSub(alpha(i), RMul(h(i - 1), prev.z)), li)]
      sweep == [i \in 1..(n - 1) |-> fw[i - 1]]
      bw[j \in 0..(n - 1)] ==
        IF j = n - 1 THEN [a |-> a(j), b |-> RInt(0), c |-> RInt(0), d |-> RInt(0)]
        ELSE LET next == bw[j + 1]
                 cj == RSub(sweep[j + 1].z, RMul(sweep[j + 1].mu, next.c))
             IN  [a |-> a(j),
                  b |-> RSub(RDiv(RSub(a(j + 1), a(j)), h(j)),
                             RDiv(RMul(h(j), RAdd(next.c, RMul(RInt(2), cj))),
                                  RInt(3))),
                  c |-> cj,
                  d |-> RDiv(RSub(next.c, cj), RMul(RInt(3), h(j)))]
  IN  [j \in 0..(n - 1) |-> bw[j]]

\* A step of a quarter of the interval.
SplineStep_Quarter(h) == RDiv(h, RInt(4))

\* Line 151: step = (xs[i + 1] - xs[i]) / STEPS.
SplineStep(h) == RDiv(h, RInt(STEPS))

\* An inner loop that starts at k = 1.
DenseK_FromOne(p) == ((p - 1) % STEPS) + 1

\* Line 152: the k of the p-th point pushed (p = 1, 2, ...): 0 .. STEPS-1 in
\* every interval.
DenseK(p) == (p - 1) % STEPS

\* Lines 151-158: the p-th point pushed, from the coefficients co; the point
\* after the last interval is the last sample (163-164).
DensePoint(xs, ys, co, p) ==
  IF p = STEPS * (Len(xs) - 1) + 1 THEN [x |-> xs[Len(xs)], y |-> ys[Len(xs)]]
  ELSE LET i == (p - 1) \div STEPS
           k == DenseK(p)
           step == SplineStep(RSub(xs[i + 2], xs[i + 1]))
           x == RAdd(xs[i + 1], RMul(RInt(k), step))
           dx == RSub(x, xs[i + 1])
       IN  [x |-> x,
            y |-> RAdd(RAdd(RAdd(co[i].a, RMul(co[i].b, dx)),
                            RMul(RMul(co[i].c, dx), dx)),
                       RMul(RMul(RMul(co[i].d, dx), dx), dx))]

\* Lines 145-166: denseX and denseY, STEPS points per interval and the last
\* sample at the end (the coefficients and the points are computed once and
\* then split into the two arrays).
DenseCurve(xs, ys) ==
  CHOOSE r \in
    {[xs |-> [p \in DOMAIN points |-> points[p].x],
      ys |-> [p \in DOMAIN points |-> points[p].y]] :
       points \in {[p \in 1..(STEPS * (Len(xs) - 1) + 1) |-> DensePoint(xs, ys, co, p)] :
                     co \in {SplineCoefficients(xs, ys)}}} : TRUE

\* A smoother that gives up on short input.
cubicSpline_EmptyOnShort(xs, ys) ==
  IF Len(xs) < 3 THEN [xs |-> <<>>, ys |-> <<>>] ELSE DenseCurve(xs, ys)

\* Lines 100-167.
cubicSpline(xs, ys) ==
  IF Len(xs) < 3 THEN [xs |-> xs, ys |-> ys] ELSE DenseCurve(xs, ys)

\* The smoother is applied to the samples of a graph.
Smooth ==
  /\ curve' = Some(cubicSpline(samples.xs, samples.ys))
  /\ UNCHANGED <<disk, ignoreList, db, syncinfo, req, scans, ui, jobVars>>
  /\ UNCHANGED <<schema, listing, libraryTableBody, samples, hover>>

\* A page that holds the samples of an analysis.
InitSpline ==
  /\ InitProcess
  /\ InitDeployment
  /\ disk = [m \in Movies |-> [dir |-> TRUE, en |-> Absent, fi |-> Absent,
                               whisper |-> Absent, ffsync |-> Absent]]
  /\ db = {}
  /\ samples \in SampleInputs
  /\ curve = None
  /\ hover = None

NextSpline == Smooth

SpecSpline == InitSpline /\ [][NextSpline]_vars


\* ------------------------------------------------------------------ C26
\* C26 (the smoother passes through its control points): for n >= 3 samples
\* with strictly increasing t the result has STEPS * (n - 1) + 1 points, and
\* the first point of the i-th interval is the i-th sample, t and delta
\* both, the last point the last sample: the samples appear in the result
\* unchanged and in their order.
C26_ThroughControlPoints ==
  (curve # None /\ Len(samples.xs) >= 3) =>
    LET n == Len(samples.xs)
        out == curve[1]
    IN  /\ Len(out.xs) = STEPS * (n - 1) + 1
        /\ Len(out.ys) = STEPS * (n - 1) + 1
        /\ \A i \in 1..n :
             /\ out.xs[STEPS * (i - 1) + 1] = samples.xs[i]
             /\ out.ys[STEPS * (i - 1) + 1] = samples.ys[i]

\* Four samples, unevenly spaced, not on a line, have been smoothed.
C26_Witness ==
  /\ curve # None
  /\ Len(samples.xs) = 4
  /\ Len(curve[1].xs) = 19
  /\ RSub(samples.xs[2], samples.xs[1]) # RSub(samples.xs[3], samples.xs[2])
  /\ samples.ys[1] # samples.ys[2]
  /\ samples.ys[2] = samples.ys[3]
  /\ \E p \in 1..Len(curve[1].ys) : curve[1].ys[p].d # 1

\* ------------------------------------------------------------------ C27
\* C27 (the smoother on short input): for 0, 1 or 2 samples the result is the
\* input, xs and ys unchanged.
C27_ShortInput ==
  (curve # None /\ Len(samples.xs) < 3) =>
    /\ curve[1].xs = samples.xs
    /\ curve[1].ys = samples.ys

\* Two samples have been handed to the smoother.
C27_Witness ==
  /\ curve # None
  /\ Len(samples.xs) = 2
  /\ Len(curve[1].xs) = 2
  /\ samples.ys[1] # samples.ys[2]

\* ------------------------------------------------------------------ C28
\* C28 (the smoother does not extrapolate): for n >= 3 samples with strictly
\* increasing t every t of the result lies between the first and the last t
\* of the input, ends included, and the t of the result never decrease.
C28_NoExtrapolation ==
  (curve # None /\ Len(samples.xs) >= 3) =>
    LET n == Len(samples.xs)
        out == curve[1].xs
    IN  /\ \A p \in 1..Len(out) :
             RLeq(samples.xs[1], out[p]) /\ RLeq(out[p], samples.xs[n])
        /\ \A p \in 1..(Len(out) - 1) : RLeq(out[p], out[p + 1])

\* Three samples, the second interval longer than the first, have been
\* smoothed: the result has t values that are no sample's.
C28_Witness ==
  /\ curve # None
  /\ Len(samples.xs) = 3
  /\ RLess(RSub(samples.xs[2], samples.xs[1]), RSub(samples.xs[3], samples.xs[2]))
  /\ \E p \in 1..Len(curve[1].xs) : curve[1].xs[p].d # 1


\* ------------------------------------------------------------------ drawGraph: the tooltip
CanvasW == 4       \* canvas.clientWidth
CanvasH == 2       \* canvas.clientHeight
Million == 1000000 \* bestDist starts at 1e12 = Million * Million

\* Math.min(...v), Math.max(...v) of a non-empty array.
MinOf(v) == CHOOSE m \in {v[i] : i \in 1..Len(v)} : \A i \in 1..Len(v) : RLeq(m, v[i])
MaxOf(v) == CHOOSE m \in {v[i] : i \in 1..Len(v)} : \A i \in 1..Len(v) : RLeq(v[i], m)

\* maxX - minX || 1.
Span(v) ==
  CHOOSE r \in {IF diff.n = 0 THEN RInt(1) ELSE diff : diff \in {RSub(MaxOf(v), MinOf(v))}} : TRUE

\* toCanvasX = t => ((t - minX) / spanX) * W
toCanvasX(xs, t) == RMul(RDiv(RSub(t, MinOf(xs)), Span(xs)), RInt(CanvasW))

\* toCanvasY = d => H - ((d - minY) / spanY) * H
toCanvasY(ys, d) ==
  RSub(RInt(CanvasH), RMul(RDiv(RSub(d, MinOf(ys)), Span(ys)), RInt(CanvasH)))

\* Lines 70-72: dx * dx + dy * dy for sample i (from 1) and the pointer.
SquaredDistance(xs, ys, i, mx, my) ==
  CHOOSE r \in
    {RAdd(RMul(dx, dx), RMul(dy, dy)) :
       dx \in {RSub(toCanvasX(xs, xs[i]), RInt(mx))},
       dy \in {RSub(toCanvasY(ys, ys[i]), RInt(my))}} : TRUE

\* q < 1e12, for q >= 0.
Below1e12(q) == ((q.n \div q.d) \div Million) < Million

\* A comparison that lets an equally near sample win.
Nearer_OrEqual(dist, bestDist) ==
  IF bestDist = None THEN Below1e12(dist) ELSE RLeq(dist, bestDist[1])

\* Line 73: dist < bestDist, where bestDist is 1e12 (None) until a sample
\* was taken.
Nearer(dist, bestDist) ==
  IF bestDist = None THEN Below1e12(dist) ELSE RLess(dist, bestDist[1])

\* Lines 66-77: the loop over the samples from index i (from 1) on; closest
\* counts from 0 and is -1 while no sample was taken.
RECURSIVE ClosestFrom(_, _, _, _)
ClosestFrom(dists, i, bestDist, closest) ==
  IF i > Len(dists) THEN closest
  ELSE IF Nearer(dists[i], bestDist)
         THEN ClosestFrom(dists, i + 1, Some(dists[i]), i - 1)
         ELSE ClosestFrom(dists, i + 1, bestDist, closest)

\* canvas.onmousemove (lines 61-93) for a pointer at (mx, my): closest is the
\* sample the tooltip moves to, -1 when the handler returns without moving
\* it.  The handler exists once drawGraph has run with at least one anchor
\* (line 8).
MouseMove(mx, my) ==
  /\ Len(samples.xs) > 0
  /\ \E dists \in {[i \in 1..Len(samples.xs) |->
                      SquaredDistance(samples.xs, samples.ys, i, mx, my)]} :
       hover' = Some([mx |-> mx, my |-> my, closest |-> ClosestFrom(dists, 1, None, -1)])
  /\ UNCHANGED <<disk, ignoreList, db, syncinfo, req, scans, ui, jobVars>>
  /\ UNCHANGED <<schema, listing, libraryTableBody, samples, curve>>

\* canvas.onmouseleave (lines 95-97): the tooltip is hidden.
MouseLeave ==
  /\ Len(samples.xs) > 0
  /\ hover' = None
  /\ UNCHANGED <<disk, ignoreList, db, syncinfo, req, scans, ui, jobVars>>
  /\ UNCHANGED <<schema, listing, libraryTableBody, samples, curve>>

\* A graph drawn from one, two or three anchors, and the pointer over it.
InitHover ==
  /\ InitProcess
  /\ InitDeployment
  /\ disk = [m \in Movies |-> [dir |-> TRUE, en |-> Absent, fi |-> Absent,
                               whisper |-> Absent, ffsync |-> Absent]]
  /\ db = {}
  /\ samples \in {s \in SampleInputs : Len(s.xs) \in 1..3}
  /\ curve = None
  /\ hover = None

NextHover ==
  \/ \E mx \in 0..CanvasW, my \in 0..CanvasH : MouseMove(mx, my)
  \/ MouseLeave

SpecHover == InitHover /\ [][NextHover]_vars

\* ------------------------------------------------------------------ C29
\* C29 (nearest-sample lookup): for a graph of at least one sample and any
\* pointer position, the sample the tooltip moves to is one whose squared
\* distance to the pointer, in canvas coordinates, is the least of all
\* samples, and the first such sample; the tooltip is left alone only when
\* no sample is nearer than 1e12.
C29_NearestSample ==
  hover # None =>
    \E dists \in {[i \in 1..Len(samples.xs) |->
                     SquaredDistance(samples.xs, samples.ys, i, hover[1].mx, hover[1].my)]} :
      IF hover[1].closest = -1
        THEN \A i \in 1..Len(dists) : ~Below1e12(dists[i])
        ELSE /\ hover[1].closest + 1 \in 1..Len(dists)
             /\ \A i \in 1..Len(dists) : RLeq(dists[hover[1].closest + 1], dists[i])
             /\ \A i \in 1..hover[1].closest :
                  RLess(dists[hover[1].closest + 1], dists[i])

\* The tooltip sits on the second of three samples, which is exactly as far
\* from the pointer as the third and nearer than the first.
C29_Witness ==
  /\ hover # None
  /\ Len(samples.xs) = 3
  /\ hover[1].closest = 1
  /\ SquaredDistance(samples.xs, samples.ys, 2, hover[1].mx, hover[1].my)
       = SquaredDistance(samples.xs, samples.ys, 3, hover[1].mx, hover[1].my)
  /\ RLess(SquaredDistance(samples.xs, samples.ys, 2, hover[1].mx, hover[1].my),
           SquaredDistance(samples.xs, samples.ys, 1, hover[1].mx, hover[1].my))


\* ------------------------------------------------------------------ opening the store
\* A row of a movies table that predates column state.
LegacyRow(movie, ign) ==
  [movie |-> movie, anchor_count |-> 3, avg_offset |-> 6, drift_span |-> 9,
   decision |-> "bad", best_reference |-> "en",
   reference_path |-> MovieDir(movie) \o <<EnName>>,
   has_whisper |-> 0, has_ffsubsync |-> 0, fi_mtime |-> Some(10),
   last_analyzed |-> Some(500), ignored |-> ign]

\* syncorbit.db before the process starts: without table movies (a new
\* file), with a table that has no column state, or with today's table.
StoreFiles ==
  {[columns |-> None, rows |-> {}]}
    \cup {[columns |-> Some(Columns \ {"state"}), rows |-> t] :
            t \in {u \in SUBSET {LegacyRow(m, ign) : m \in Shelf, ign \in {0, 1}} :
                     \A m \in Shelf : Cardinality(getMovie(u, m)) <= 1}}
    \cup {[columns |-> Some(Columns), rows |-> t] :
            t \in {u \in SUBSET {PriorRow(m, ign, st) : m \in Shelf, ign \in {0, 1},
                                                        st \in {"ok", "missing_subtitles"}} :
                     \A m \in Shelf : Cardinality(getMovie(u, m)) <= 1}}

\* CREATE TABLE IF NOT EXISTS movies (...): a table that exists is left as it
\* is, whatever its columns.
CreateTableIfNotExists(columns) == IF columns = None THEN Some(Columns) ELSE columns

\* db.cjs as server.cjs loads it (server.cjs 9-10): the database file is
\* opened and initDb() runs.
OpenStore ==
  /\ schema.opened = "no"
  /\ schema' = [columns |-> CreateTableIfNotExists(schema.columns), opened |-> "ok"]
  /\ UNCHANGED <<disk, ignoreList, db, syncinfo, req, scans, ui, jobVars>>
  /\ UNCHANGED <<listing, libraryTableBody, samples, curve, hover>>

\* The variant of db.cjs with ensureColumn('movies', 'state') at module load,
\* before initDb(): PRAGMA table_info of a table that does not exist gives no
\* rows, so ALTER TABLE ... ADD COLUMN runs and throws on a new file; on a
\* table without the column it adds it, and every row reads the default.
OpenStoreEnsuringColumn ==
  /\ schema.opened = "no"
  /\ IF schema.columns = None
       THEN /\ schema' = [schema EXCEPT !.opened = "failed"]
            /\ UNCHANGED db
       ELSE IF "state" \in schema.columns[1]
         THEN /\ schema' = [schema EXCEPT !.opened = "ok"]
              /\ UNCHANGED db
         ELSE /\ schema' = [columns |-> Some(schema.columns[1] \cup {"state"}),
                            opened |-> "ok"]
              /\ db' = {x @@ [state |-> "ok"] : x \in db}
  /\ UNCHANGED <<disk, ignoreList, syncinfo, req, scans, ui, jobVars>>
  /\ UNCHANGED <<listing, libraryTableBody, samples, curve, hover>>

\* The process has not opened the store yet.
InitSchema ==
  /\ InitDeployment
  /\ InitGraph
  /\ ignoreList = <<>>
  /\ syncinfo = [m \in Movies |-> None]
  /\ req = [r \in Reqs |-> Idle]
  /\ scans = 0
  /\ ui = [c \in Clients |-> [disabled |-> FALSE, libNote |-> ""]]
  /\ job = JobIdle
  /\ bulkResp = None
  /\ modal = ModalClosed
  /\ progress = None
  /\ poll = None
  /\ listing = None
  /\ libraryTableBody = <<>>
  /\ disk = [m \in Movies |-> [dir |-> TRUE, en |-> Absent, fi |-> Absent,
                               whisper |-> Absent, ffsync |-> Absent]]
  /\ \E f \in StoreFiles :
       /\ schema = [columns |-> f.columns, opened |-> "no"]
       /\ db = f.rows

NextSchema ==
  \/ OpenStore
  \/ OpenStoreEnsuringColumn

SpecSchema == InitSchema /\ [][NextSchema]_vars

\* ------------------------------------------------------------------ C30
\* C30 (non-destructive schema evolution): opening the store on a database
\* without table movies, or with a movies table that has no column state,
\* succeeds; afterwards the table has column state, every row that was there
\* is still there with its other fields unchanged and reads state = ok, and
\* no row was added.
C30_SchemaEvolution ==
  [][(/\ schema.opened = "no"
      /\ schema'.opened # "no"
      /\ (schema.columns = None \/ "state" \notin schema.columns[1]))
       => /\ schema'.opened = "ok"
          /\ schema'.columns # None
          /\ schema'.columns[1] = Columns
          /\ Cardinality(db') = Cardinality(db)
          /\ \A x \in db : \E y \in db' :
               /\ y.state = "ok"
               /\ \A f \in DOMAIN x : y[f] = x[f]]_vars

\* ------------------------------------------------------------------ ignore list and flag
\* A store whose ignored flags agree with the (empty) ignore list when the
\* server starts; SYNCORBIT_DATA is not set, so both handlers name the same
\* ignore_list.json.
InitAgree ==
  /\ InitServer
  /\ InitDeployment
  /\ disk \in [Movies -> {d \in DiskLayouts({FirstStamp}) :
                            d.dir /\ d.fi # Absent /\ d.ffsync = Absent}]
  /\ db \in {t \in SUBSET {PriorRow(m, 0, st) : m \in Movies,
                                                st \in {"ok", "missing_subtitles"}} :
               \A m \in Movies : Cardinality(getMovie(t, m)) <= 1}

NextAgree ==
  \/ \E ms \in BulkRequests : BulkIgnore(ms)
  \/ \E m \in Movies : ReanalyzeStart(1, m)
  \/ ReanalyzeResume(1)

SpecAgree == InitAgree /\ [][NextAgree]_vars

\* ------------------------------------------------------------------ C31
\* C31 (ignore list and record flag agree): in every state reached by bulk
\* ignore and re-analysis calls, a record has ignored = 1 exactly if its item
\* is in the ignore list.
C31_ListAndFlagAgree ==
  \A x \in db : (x.ignored = 1) <=> Includes(ignoreList, x.movie)

\* ------------------------------------------------------------------ C32
\* C32 (ignore wins over an in-flight re-analysis): a re-analysis that resumes
\* after the analyzer while its item is in the ignore list commits no upsert,
\* the table stays as it is.
C32_IgnoreWins ==
  [][\A r \in Reqs :
       (Resumed(r) /\ Includes(ignoreList, req[r].movie)) => db' = db]_vars

\* ------------------------------------------------------------------ C33
\* C33 (reference and artifact flags are consistent): every record names a
\* whisper reference only with has_whisper = 1 and an ffsubsync reference
\* only with has_ffsubsync = 1, also when the files change while a
\* re-analysis waits for the analyzer.
C33_FlagsConsistent ==
  \A x \in db :
    /\ x.best_reference = "whisper" => x.has_whisper = 1
    /\ x.best_reference = "ffsync" => x.has_ffsubsync = 1

\* ------------------------------------------------------------------ C34
\* C34 (analysis detail and record agree): whenever an item has an analysis
\* file, its record exists and carries the best_reference and reference_path
\* of the file.
C34_DetailAndRecordAgree ==
  \A m \in Movies :
    syncinfo[m] # None =>
      \E x \in getMovie(db, m) :
        /\ x.best_reference = syncinfo[m][1].best_reference
        /\ x.reference_path = syncinfo[m][1].reference_path

\* ------------------------------------------------------------------ C35
\* The number of entries of results and of errors that name the item.
Entries(name, results, errors) ==
  Cardinality({i \in 1..Len(results) : results[i].movie = name})
    + Cardinality({i \in 1..Len(errors) : errors[i].movie = name})

\* No item is named twice by the request.
Distinct(movies) ==
  \A i, k \in 1..Len(movies) : movies[i] = movies[k] => i = k

\* C35 (bulk resync reports each item once): when the bulk ffsubsync handler
\* answers a request of distinct items, every requested item is named by
\* exactly one entry of results and errors together; and an item whose
\* ffsubsync run exited with status 0 is named by results and not by errors.
C35_EachItemOnce ==
  [][/\ \A ms \in BulkRequests :
          (BulkFfsubsync(ms) /\ job'.pc = "idle" /\ Distinct(ms))
            => \A i \in 1..Len(ms) :
                 Entries(ms[i], bulkResp'[1].results[1], bulkResp'[1].errors[1]) = 1
     /\ (job.pc = "spawnSync" /\ job'.pc = "idle" /\ Distinct(job.request))
          => \A i \in 1..Len(job.request) :
               Entries(job.request[i], bulkResp'[1].results[1], bulkResp'[1].errors[1]) = 1
     /\ \A now \in Nows :
          (FfsubsyncExit("ok", now) /\ Distinct(job.request))
            => LET movie == Head(job.movies)
                   acc == IF job'.pc = "idle"
                            THEN [results |-> bulkResp'[1].results[1],
                                  errors |-> bulkResp'[1].errors[1]]
                            ELSE [results |-> job'.results, errors |-> job'.errors]
               IN  /\ Entries(movie, acc.results, <<>>) = 1
                   /\ Entries(movie, <<>>, acc.errors) = 0]_vars

\* ------------------------------------------------------------------ C36
\* C36 (a successful resync is recorded as a candidate): after ffsubsync has
\* exited with status 0 for an item, the item's analysis file exists, holds
\* ref_candidates.ffsubsync_en with the path of the produced subtitle, and
\* every field the file had before is still there with its value.
C36_CandidateRecorded ==
  [][\A now \in Nows :
       FfsubsyncExit("ok", now)
         => LET movie == Head(job.movies)
            IN  /\ syncinfo'[movie] # None
                /\ "ref_candidates" \in DOMAIN syncinfo'[movie][1]
                /\ syncinfo'[movie][1].ref_candidates.ffsubsync_en.path
                     = ResyncDir(movie) \o <<SyncedName>>
                /\ syncinfo[movie] # None =>
                     \A f \in DOMAIN syncinfo[movie][1] \ {"ref_candidates"} :
                       syncinfo'[movie][1][f] = syncinfo[movie][1][f]]_vars

\* ------------------------------------------------------------------ C37
\* The items of a list, as a set.
Items(list) == {list[i] : i \in 1..Len(list)}

\* C37 (bulk ignore is idempotent and only grows the list): a bulk ignore
\* request keeps the list it found as the head of the list it saves, adds
\* exactly the requested items that were missing, each once also when the
\* request repeats it, answers with the length of the saved list, and changes
\* nothing when every requested item is in the list already.
C37_IgnoreIdempotent ==
  [][\A ms \in BulkRequests :
       BulkIgnore(ms)
         => /\ Len(ignoreList') >= Len(ignoreList)
            /\ SubSeq(ignoreList', 1, Len(ignoreList)) = ignoreList
            /\ Items(ignoreList') = Items(ignoreList) \cup Items(ms)
            /\ Distinct(ignoreList) => Distinct(ignoreList')
            /\ bulkResp'[1].ok
            /\ bulkResp'[1].total = Some(Len(ignoreList'))
            /\ Items(ms) \subseteq Items(ignoreList) => ignoreList' = ignoreList]_vars

\* Bulk ignore has put both names on the list, each once, and the last
\* answer gives the total 2.
C37_Witness ==
  /\ Len(ignoreList) = 2
  /\ Items(ignoreList) = {"A", "B"}
  /\ bulkResp # None
  /\ bulkResp[1].total = Some(2)

\* ------------------------------------------------------------------ C38
\* The first check of the fixed order that the item fails, "" when it passes
\* all four: media directory, ignore list, a reference candidate, FI subtitle.
FirstFailingCheck(movie) ==
  IF ~disk[movie].dir THEN "movie_not_found"
  ELSE IF Includes(ignoreList, movie) THEN "ignored"
  ELSE IF Existing(disk[movie]) = {} THEN "no_english_reference"
  ELSE IF disk[movie].fi = Absent THEN "missing_finnish_subtitle"
  ELSE ""

\* C38 (a missing target is rejected before analysis): a re-analysis request
\* is answered at once with the error of the first check it fails, in the
\* order movie_not_found, ignored, no_english_reference,
\* missing_finnish_subtitle, without calling the analyzer and with the table
\* and the analysis files left as they are; it calls the analyzer only when
\* it passes all four.
C38_ChecksInOrder ==
  [][\A m \in Movies :
       ReanalyzeStart(1, m)
         => IF FirstFailingCheck(m) = ""
              THEN req'[1].pc = "await"
              ELSE /\ req'[1].pc = "done"
                   /\ ~req'[1].resp[1].ok
                   /\ req'[1].resp[1].error = FirstFailingCheck(m)
                   /\ db' = db
                   /\ syncinfo' = syncinfo]_vars

\* A request for an item that has a reference candidate and no FI subtitle
\* was answered with missing_finnish_subtitle.
C38_Witness ==
  /\ req[1].pc = "done"
  /\ req[1].movie = "A"
  /\ req[1].resp[1].error = "missing_finnish_subtitle"
  /\ disk["A"].dir
  /\ disk["A"].fi = Absent
  /\ Existing(disk["A"]) # {}
  /\ ~Includes(ignoreList, "A")

====
